---- MODULE Spec2Model ----
(***************************************************************************)
(* A model of antd-country-phone-picker: the phone value codec             *)
(* (utils/phone), the country filter (hooks/useCountries), the cursor      *)
(* protection engine (hooks/useInputProtection), the text field            *)
(* (components/PhoneInput) and the orchestrator                            *)
(* (components/CountryPhoneInput).                                         *)
(*                                                                         *)
(* Text is a sequence of one-character strings, positions are 0-based as   *)
(* in the source (a selection [s, e) covers the characters s+1..e of the   *)
(* sequence).                                                              *)
(***************************************************************************)
EXTENDS Integers, Sequences, FiniteSets, TLC

VARIABLES
    countries,        \* the working country list (useCountries().countries)
    controlledValue,  \* the `value` prop: a text, or NoValue when uncontrolled
    selectedCountry,  \* React state of CountryPhoneInput
    inputValue,       \* React state of CountryPhoneInput: the raw text
    selStart,         \* the text field's selectionStart
    selEnd,           \* the text field's selectionEnd
    raf,              \* callbacks handed to requestAnimationFrame, oldest first
    clipboard,        \* what the last cut wrote with clipboardData.setData
    emitted,          \* the values the last step passed to props.onChange
    dirty,            \* a render was committed whose effects have not run yet
    last,             \* the last step taken and the state it started from
    budget,           \* user and parent events the behaviour may still take
    reach,            \* the furthest position, short of the end, the user points at
    calc              \* the codec under test: inputs and results

vars == <<countries, controlledValue, selectedCountry, inputValue, selStart,
          selEnd, raf, clipboard, emitted, dirty, last, budget, reach, calc>>

widgetVars == <<countries, controlledValue, selectedCountry, inputValue,
                selStart, selEnd, raf, clipboard, emitted, dirty, last, budget,
                reach>>

-----------------------------------------------------------------------------
(* Bounds of the model.                                                    *)

\* longest text handed to the codec functions
MaxTextLen == 4
\* user and parent events per behaviour of the widget
MaxSteps == 2
\* user events per behaviour that starts from the documented example
MaxExSteps == 2
\* the caret and selection ends the user places are 0..MaxCaret and the end
MaxCaret == 3
\* the same for a behaviour that starts from the documented example
MaxExCaret == 5
\* callbacks waiting for the next animation frame
MaxRaf == 1
\* codes in a caller's preferredCountries
MaxPreferred == 2

-----------------------------------------------------------------------------
(* Strings.                                                                *)

DigitChars == {"0", "1", "2", "3", "4", "5", "6", "7", "8", "9"}

\* /\d/
IsDigit(ch) == ch \in DigitChars

\* String.prototype.slice(a, b) for 0 <= a
Slice(s, a, b) == SubSeq(s, a + 1, IF b > Len(s) THEN Len(s) ELSE b)

\* String.prototype.slice(a)
SliceFrom(s, a) == SubSeq(s, a + 1, Len(s))

\* String.prototype.startsWith
StartsWith(s, p) == Len(p) <= Len(s) /\ SubSeq(s, 1, Len(p)) = p

\* value.replace(/[^\d+]/g, '')
KeepDigitsPlus(s) == SelectSeq(s, LAMBDA ch : IsDigit(ch) \/ ch = "+")

\* value.replace(/[^\d]/g, '')
getDigitsOnly(s) == SelectSeq(s, IsDigit)

\* value.replace(/^\+/, '')
StripLeadingPlus(s) == IF StartsWith(s, <<"+">>) THEN SliceFrom(s, 1) ELSE s

\* the number of occurrences of ch in s
CountChar(s, ch) == Len(SelectSeq(s, LAMBDA x : x = ch))

-----------------------------------------------------------------------------
(* The country catalog (data/countries).                                   *)

\* `undefined` for the value prop: the widget is uncontrolled
NoValue == <<"undefined">>

\* `null` where the source allows Country | null
NoCountry == [iso2 |-> "", name |-> "", dialCode |-> <<>>, format |-> <<>>,
              priority |-> 0]

CA == [iso2 |-> "CA", name |-> "Canada", dialCode |-> <<"1">>,
       format |-> <<"+", ".", " ", "(", ".", ".", ".", ")", " ", ".", ".",
                    ".", "-", ".", ".", ".", ".">>,
       priority |-> 1]

SG == [iso2 |-> "SG", name |-> "Singapore", dialCode |-> <<"6", "5">>,
       format |-> <<"+", ".", ".", " ", ".", ".", ".", ".", "-", ".", ".",
                    ".", ".">>,
       priority |-> 0]

GB == [iso2 |-> "GB", name |-> "United Kingdom", dialCode |-> <<"4", "4">>,
       format |-> <<"+", ".", ".", " ", ".", ".", ".", ".", " ", ".", ".",
                    ".", ".", ".", ".">>,
       priority |-> 0]

US == [iso2 |-> "US", name |-> "United States", dialCode |-> <<"1">>,
       format |-> <<"+", ".", " ", "(", ".", ".", ".", ")", " ", ".", ".",
                    ".", "-", ".", ".", ".", ".">>,
       priority |-> 0]

\* the catalog, in catalog order
allCountries == <<CA, SG, GB, US>>

\* the catalog's fallback country
defaultCountry == US

\* the maximum national-number length: the '.' placeholders of the template
\* after those of the dial code
MaxNational(c) == CountChar(c.format, ".") - Len(c.dialCode)

-----------------------------------------------------------------------------
(* The phone value codec (utils/phone).                                    *)

\* normalizePhoneValue with the prefix test reduced to the bare dial code
normalizeBareTestOnly(value, country) ==
    IF country = NoCountry THEN value
    ELSE LET dialCode == <<"+">> \o country.dialCode
             cleaned == KeepDigitsPlus(value)
         IN  IF ~StartsWith(cleaned, country.dialCode)
             THEN dialCode \o StripLeadingPlus(cleaned)
             ELSE IF ~StartsWith(cleaned, <<"+">>)
                  THEN <<"+">> \o cleaned
                  ELSE cleaned

normalizePhoneValue(value, country) ==
    IF country = NoCountry THEN value
    ELSE LET dialCode == <<"+">> \o country.dialCode
             cleaned == KeepDigitsPlus(value)
         IN  IF /\ ~StartsWith(cleaned, dialCode)
                /\ ~StartsWith(cleaned, country.dialCode)
             THEN dialCode \o StripLeadingPlus(cleaned)
             ELSE IF ~StartsWith(cleaned, <<"+">>)
                  THEN <<"+">> \o cleaned
                  ELSE cleaned

\* parsePhoneNumber with the validity the README gives: at least 4 digits
parseValidFromFour(value, country) ==
    LET cleaned == KeepDigitsPlus(value)
        withPlus == country # NoCountry
                    /\ StartsWith(cleaned, <<"+">> \o country.dialCode)
        bare == country # NoCountry /\ StartsWith(cleaned, country.dialCode)
        nationalNumber ==
            IF withPlus THEN SliceFrom(cleaned, Len(country.dialCode) + 1)
            ELSE IF bare THEN SliceFrom(cleaned, Len(country.dialCode))
            ELSE StripLeadingPlus(cleaned)
    IN  [fullNumber |-> IF ~withPlus /\ bare THEN <<"+">> \o cleaned ELSE cleaned,
         nationalNumber |-> nationalNumber,
         dialCode |-> IF country # NoCountry THEN <<"+">> \o country.dialCode
                      ELSE <<>>,
         countryCode |-> country.iso2,
         country |-> country,
         isValid |-> Len(nationalNumber) >= 4,
         rawValue |-> value]

\* parsePhoneNumber without the branch for a bare dial code
parseNoBareDial(value, country) ==
    LET cleaned == KeepDigitsPlus(value)
        withPlus == country # NoCountry
                    /\ StartsWith(cleaned, <<"+">> \o country.dialCode)
        nationalNumber ==
            IF withPlus THEN SliceFrom(cleaned, Len(country.dialCode) + 1)
            ELSE StripLeadingPlus(cleaned)
    IN  [fullNumber |-> cleaned,
         nationalNumber |-> nationalNumber,
         dialCode |-> IF country # NoCountry THEN <<"+">> \o country.dialCode
                      ELSE <<>>,
         countryCode |-> country.iso2,
         country |-> country,
         isValid |-> Len(nationalNumber) >= 4 /\ Len(nationalNumber) <= 15,
         rawValue |-> value]

\* parsePhoneNumber(value, country): the structured value of a text
parsePhoneNumber(value, country) ==
    LET cleaned == KeepDigitsPlus(value)
        dialCode == IF country # NoCountry THEN <<"+">> \o country.dialCode
                    ELSE <<>>
        withPlus == country # NoCountry
                    /\ StartsWith(cleaned, <<"+">> \o country.dialCode)
        bare == country # NoCountry /\ StartsWith(cleaned, country.dialCode)
        nationalNumber ==
            IF withPlus THEN SliceFrom(cleaned, Len(country.dialCode) + 1)
            ELSE IF bare THEN SliceFrom(cleaned, Len(country.dialCode))
            ELSE StripLeadingPlus(cleaned)
        fullNumber == IF ~withPlus /\ bare THEN <<"+">> \o cleaned ELSE cleaned
    IN  [fullNumber |-> fullNumber,
         nationalNumber |-> nationalNumber,
         dialCode |-> dialCode,
         countryCode |-> country.iso2,
         country |-> country,
         isValid |-> Len(nationalNumber) >= 4 /\ Len(nationalNumber) <= 15,
         rawValue |-> value]

-----------------------------------------------------------------------------
(* Catalog lookups (data/countries).                                       *)

\* the positions of the catalog whose country has the dial code
SharingDialCode(code) ==
    {i \in 1..Len(allCountries) : allCountries[i].dialCode = code}

\* the best match for a dial code: the country flagged as primary (lowest
\* priority number), the first in catalog order among equals; NoCountry for
\* an unknown dial code
getBestCountryForDialCode(code) ==
    LET idx == SharingDialCode(code)
    IN  IF idx = {} THEN NoCountry
        ELSE allCountries[CHOOSE i \in idx : \A j \in idx :
                \/ allCountries[i].priority < allCountries[j].priority
                \/ /\ allCountries[i].priority = allCountries[j].priority
                   /\ i <= j]

\* the longest dial code a country has
MaxDialCodeLen == 4

\* guessCountryFromNumber: the best match for the longest prefix of the
\* digits that is a dial code; NoCountry when there is none
RECURSIVE GuessByPrefix(_, _)
GuessByPrefix(digits, n) ==
    IF n = 0 THEN NoCountry
    ELSE IF n <= Len(digits) /\ SharingDialCode(SubSeq(digits, 1, n)) # {}
         THEN getBestCountryForDialCode(SubSeq(digits, 1, n))
         ELSE GuessByPrefix(digits, n - 1)

guessCountryFromNumber(raw) == GuessByPrefix(getDigitsOnly(raw), MaxDialCodeLen)

-----------------------------------------------------------------------------
(* The country filter (hooks/useCountries).                                *)

\* String.prototype.toUpperCase on the ISO2 codes a caller passes
toUpperCase(code) ==
    CASE code = "us" -> "US"
      [] code = "gb" -> "GB"
      [] code = "ca" -> "CA"
      [] code = "sg" -> "SG"
      [] OTHER -> code

\* Array.prototype.find on the result of a filter: the first element, or
\* NoCountry
First(hits) == IF hits = <<>> THEN NoCountry ELSE hits[1]

\* Array.prototype.some on a country list
InList(list, c) == \E i \in 1..Len(list) : list[i].iso2 = c.iso2

\* the distinct filter dropping nothing
DistinctKeepsAll(list, n) == SubSeq(list, 1, n)

\* the countries of a list up to position n, one per dial code (the first)
RECURSIVE DistinctPrefix(_, _)
DistinctPrefix(list, n) ==
    IF n = 0 THEN <<>>
    ELSE LET kept == DistinctPrefix(list, n - 1)
         IN  IF \E i \in 1..(n - 1) : list[i].dialCode = list[n].dialCode
             THEN kept
             ELSE Append(kept, list[n])

\* the filter comparing the caller's codes as written
FilterCaseSensitive(onlyCountries, excludeCountries, distinct) ==
    LET afterOnly ==
            IF onlyCountries # {}
            THEN SelectSeq(allCountries, LAMBDA c : c.iso2 \in onlyCountries)
            ELSE allCountries
        afterExclude ==
            IF excludeCountries # {}
            THEN SelectSeq(afterOnly, LAMBDA c : c.iso2 \notin excludeCountries)
            ELSE afterOnly
    IN  IF distinct THEN DistinctPrefix(afterExclude, Len(afterExclude))
        ELSE afterExclude

\* useCountries().countries: only, then exclude, then distinct
FilterCountries(onlyCountries, excludeCountries, distinct) ==
    LET onlySet == {toUpperCase(x) : x \in onlyCountries}
        excludeSet == {toUpperCase(x) : x \in excludeCountries}
        afterOnly ==
            IF onlyCountries # {}
            THEN SelectSeq(allCountries,
                           LAMBDA c : toUpperCase(c.iso2) \in onlySet)
            ELSE allCountries
        afterExclude ==
            IF excludeCountries # {}
            THEN SelectSeq(afterOnly,
                           LAMBDA c : toUpperCase(c.iso2) \notin excludeSet)
            ELSE afterOnly
    IN  IF distinct THEN DistinctPrefix(afterExclude, Len(afterExclude))
        ELSE afterExclude

\* getByIso2 comparing the codes as they are written
getByIso2CaseSensitive(list, iso2) ==
    First(SelectSeq(list, LAMBDA c : c.iso2 = iso2))

\* useCountries().getByIso2 over a working list
getByIso2(list, iso2) ==
    First(SelectSeq(list, LAMBDA c : toUpperCase(c.iso2) = toUpperCase(iso2)))

\* the preferred list mapped through the whole catalog
RECURSIVE preferredFromCatalog(_, _)
preferredFromCatalog(list, codes) ==
    IF codes = <<>> THEN <<>>
    ELSE LET country == getByIso2(allCountries, Head(codes))
         IN  (IF country # NoCountry THEN <<country>> ELSE <<>>)
                \o preferredFromCatalog(list, Tail(codes))

\* useCountries().preferred: the caller's codes mapped through the working
\* list, a code that names none of its countries contributing nothing
RECURSIVE preferred(_, _)
preferred(list, codes) ==
    IF codes = <<>> THEN <<>>
    ELSE LET country == getByIso2(list, Head(codes))
         IN  (IF country # NoCountry THEN <<country>> ELSE <<>>)
                \o preferred(list, Tail(codes))

\* the dial-code lookup going to the catalog straight away
getByDialCodeGlobal(list, dialCode) ==
    getBestCountryForDialCode(StripLeadingPlus(dialCode))

\* useCountries().getByDialCode over a working list
getByDialCode(list, dialCode) ==
    LET code == StripLeadingPlus(dialCode)
        match == First(SelectSeq(list, LAMBDA c : c.dialCode = code))
    IN  IF match # NoCountry THEN match ELSE getBestCountryForDialCode(code)

\* the characters of the country names and ISO2 codes of the catalog
nameChars(c) ==
    CASE c.iso2 = "CA" -> <<"C", "a", "n", "a", "d", "a">>
      [] c.iso2 = "SG" -> <<"S", "i", "n", "g", "a", "p", "o", "r", "e">>
      [] c.iso2 = "GB" -> <<"U", "n", "i", "t", "e", "d", " ",
                            "K", "i", "n", "g", "d", "o", "m">>
      [] c.iso2 = "US" -> <<"U", "n", "i", "t", "e", "d", " ",
                            "S", "t", "a", "t", "e", "s">>
      [] OTHER -> <<>>

iso2Chars(c) ==
    CASE c.iso2 = "CA" -> <<"C", "A">>
      [] c.iso2 = "SG" -> <<"S", "G">>
      [] c.iso2 = "GB" -> <<"G", "B">>
      [] c.iso2 = "US" -> <<"U", "S">>
      [] OTHER -> <<>>

UpperLetters ==
    <<"A", "B", "C", "D", "E", "F", "G", "H", "I", "J", "K", "L", "M",
      "N", "O", "P", "Q", "R", "S", "T", "U", "V", "W", "X", "Y", "Z">>

LowerLetters ==
    <<"a", "b", "c", "d", "e", "f", "g", "h", "i", "j", "k", "l", "m",
      "n", "o", "p", "q", "r", "s", "t", "u", "v", "w", "x", "y", "z">>

\* String.prototype.toLowerCase
toLowerCase(s) ==
    [i \in 1..Len(s) |->
        IF \E k \in 1..26 : UpperLetters[k] = s[i]
        THEN LowerLetters[CHOOSE k \in 1..26 : UpperLetters[k] = s[i]]
        ELSE s[i]]

\* String.prototype.trim
RECURSIVE trimStart(_)
trimStart(s) == IF s # <<>> /\ Head(s) = " " THEN trimStart(Tail(s)) ELSE s

RECURSIVE trimEnd(_)
trimEnd(s) ==
    IF s # <<>> /\ s[Len(s)] = " " THEN trimEnd(SubSeq(s, 1, Len(s) - 1))
    ELSE s

trim(s) == trimEnd(trimStart(s))

\* String.prototype.includes
includes(s, q) ==
    \E i \in 0..(Len(s) - Len(q)) : SubSeq(s, i + 1, i + Len(q)) = q

\* matchName || matchIso2 || matchDialCode
matchesQuery(c, q) ==
    \/ includes(toLowerCase(nameChars(c)), q)
    \/ includes(toLowerCase(iso2Chars(c)), q)
    \/ includes(c.dialCode, q)

\* useCountries().search without the lower-casing of the query
searchKeepsCase(list, query) ==
    LET q == trim(StripLeadingPlus(query))
    IN  IF q = <<>> THEN list
        ELSE SelectSeq(list, LAMBDA c : matchesQuery(c, q))

\* useCountries().search over a working list
search(list, query) ==
    LET q == trim(StripLeadingPlus(toLowerCase(query)))
    IN  IF q = <<>> THEN list
        ELSE SelectSeq(list, LAMBDA c : matchesQuery(c, q))

\* CountrySelect.filterOption for the option with the value iso2
filterOption(list, input, iso2) ==
    IF input = <<>> THEN TRUE
    ELSE LET query == StripLeadingPlus(toLowerCase(input))
             country == First(SelectSeq(list, LAMBDA c : c.iso2 = iso2))
         IN  IF country = NoCountry THEN FALSE
             ELSE matchesQuery(country, query)

-----------------------------------------------------------------------------
(* The cursor protection engine and the text field.                        *)

Min(a, b) == IF a < b THEN a ELSE b
Max(a, b) == IF a > b THEN a ELSE b

\* the protected position without the '+'
getProtectedPositionNoPlus(country) ==
    IF country = NoCountry THEN 0 ELSE Len(country.dialCode)

\* the protected position: the length of '+' and the dial code
getProtectedPosition(country) ==
    IF country = NoCountry THEN 0 ELSE 1 + Len(country.dialCode)

\* '+' and the dial code of a country ('' for no country)
Prefix(country) ==
    IF country = NoCountry THEN <<>> ELSE <<"+">> \o country.dialCode

\* the digits of a text behind the prefix of a country
NationalDigits(text, country) ==
    getDigitsOnly(SliceFrom(text, getProtectedPosition(country)))

\* input.setSelectionRange(a, b) on a field holding n characters: the range
\* the field ends up with
SetSelectionRange(a, b, n) ==
    LET e == Min(b, n)
    IN  <<Min(a, e), e>>

\* what the selection becomes when a render shows `shown` in a field whose
\* content is `dom` with the selection `sel`: writing a different value
\* moves the caret to the end
SelectionAfterRender(dom, sel, shown) ==
    IF shown = dom THEN SetSelectionRange(sel[1], sel[2], Len(shown))
    ELSE <<Len(shown), Len(shown)>>

\* handleChange cutting the field content one character behind the dial code
handleChangeSkipsOne(newValue, country) ==
    LET dialCode == Prefix(country)
    IN  IF ~StartsWith(newValue, dialCode)
        THEN dialCode \o getDigitsOnly(newValue)
        ELSE Slice(newValue, 0, Len(dialCode))
                \o getDigitsOnly(SliceFrom(newValue, Len(dialCode) + 1))

\* PhoneInput.handleChange: the value passed to onChange for the field
\* content newValue
handleChange(newValue, country) ==
    LET dialCode == Prefix(country)
    IN  IF ~StartsWith(newValue, dialCode)
        THEN dialCode \o getDigitsOnly(newValue)
        ELSE Slice(newValue, 0, Len(dialCode))
                \o getDigitsOnly(SliceFrom(newValue, Len(dialCode)))

\* the engine's edit taking one character more
RemoveOneMore(value, protectedPos, endPos) ==
    Slice(value, 0, protectedPos) \o SliceFrom(value, endPos + 1)

\* the engine's own edit: the text with [protectedPos, endPos) removed
RemoveUnprotected(value, protectedPos, endPos) ==
    Slice(value, 0, protectedPos) \o SliceFrom(value, endPos)

\* handleKeyDown, Backspace, editing also when the selection ends at the
\* protected position
BackspaceEditsAtBoundary(s, e, protectedPos) ==
    IF s <= protectedPos
    THEN IF e > s
         THEN IF s < protectedPos
              THEN IF e >= protectedPos THEN "edit" ELSE "reject"
              ELSE "default"
         ELSE "reject"
    ELSE "default"

\* handleKeyDown, Backspace: "reject" (default prevented, nothing done),
\* "edit" (default prevented, the engine edits) or "default"
BackspaceKeyDown(s, e, protectedPos) ==
    IF s <= protectedPos
    THEN IF e > s
         THEN IF s < protectedPos
              THEN IF e > protectedPos THEN "edit" ELSE "reject"
              ELSE "default"
         ELSE "reject"
    ELSE "default"

\* handleKeyDown, Delete, without the branch that edits
DeleteAlwaysRejects(s, e, protectedPos) ==
    IF s < protectedPos THEN "reject" ELSE "default"

\* handleKeyDown, Delete
DeleteKeyDown(s, e, protectedPos) ==
    IF s < protectedPos
    THEN IF e > protectedPos THEN "edit" ELSE "reject"
    ELSE "default"

\* handleBeforeInput: TRUE when the default action is prevented
BeforeInputPrevents(inputType, s, protectedPos) ==
    \/ inputType = "deleteContentBackward" /\ s <= protectedPos
    \/ inputType = "deleteContentForward" /\ s < protectedPos
    \/ inputType = "deleteByCut" /\ s < protectedPos

\* the text field's own Backspace on `value`: the new content and caret
DefaultBackspace(value, s, e) ==
    IF e > s THEN [text |-> Slice(value, 0, s) \o SliceFrom(value, e), caret |-> s]
    ELSE IF s > 0
         THEN [text |-> Slice(value, 0, s - 1) \o SliceFrom(value, s),
               caret |-> s - 1]
         ELSE [text |-> value, caret |-> s]

\* the text field's own Delete
DefaultDelete(value, s, e) ==
    IF e > s THEN [text |-> Slice(value, 0, s) \o SliceFrom(value, e), caret |-> s]
    ELSE [text |-> Slice(value, 0, s) \o SliceFrom(value, s + 1), caret |-> s]

\* the text field's own insertion of typed text over the selection
DefaultInsert(value, s, e, typed) ==
    [text |-> Slice(value, 0, s) \o typed \o SliceFrom(value, e),
     caret |-> s + Len(typed)]

\* handlePaste without its protected branch
PasteRangeUnclamped(s, e, protectedPos) == [from |-> s, to |-> e]

\* handlePaste: where the digits go, [from, to) is what they replace
PasteRange(s, e, protectedPos) ==
    IF s < protectedPos
    THEN [from |-> protectedPos,
          to |-> IF e > protectedPos THEN e ELSE protectedPos]
    ELSE [from |-> s, to |-> e]

-----------------------------------------------------------------------------
(* The orchestrator (components/CountryPhoneInput).                        *)

\* the replace without the optional '+' of the pattern
StripDialCodeBareOnly(value, dialCode) ==
    IF StartsWith(value, dialCode) THEN SliceFrom(value, Len(dialCode))
    ELSE value

\* inputValue.replace(new RegExp(`^\\+?${currentDialCode}`), '')
StripDialCode(value, dialCode) ==
    IF StartsWith(value, <<"+">> \o dialCode)
    THEN SliceFrom(value, Len(dialCode) + 1)
    ELSE IF StartsWith(value, dialCode) THEN SliceFrom(value, Len(dialCode))
         ELSE value

\* handleCountryChange keeping every digit of the text, the old dial code too
countryChangeKeepsAll(value, current, country) ==
    <<"+">> \o country.dialCode \o getDigitsOnly(value)

\* handleCountryChange: the text for the new country
countryChangeValue(value, current, country) ==
    <<"+">> \o country.dialCode
        \o getDigitsOnly(StripDialCode(value, current.dialCode))

\* getInitialCountry taking defaultCode before defaultCountry
getInitialCountryCodeFirst(list, props) ==
    LET byCountry == IF props.defaultCountry # ""
                     THEN getByIso2(list, props.defaultCountry) ELSE NoCountry
        byCode == IF props.defaultCode # <<>>
                  THEN getByDialCode(list, props.defaultCode) ELSE NoCountry
        initialValue == IF props.value # NoValue THEN props.value
                        ELSE props.defaultValue
        guessed == IF initialValue # <<>>
                   THEN guessCountryFromNumber(initialValue) ELSE NoCountry
    IN  IF byCode # NoCountry THEN byCode
        ELSE IF byCountry # NoCountry THEN byCountry
        ELSE IF guessed # NoCountry /\ InList(list, guessed) THEN guessed
        ELSE IF Len(list) > 0 THEN list[1]
        ELSE defaultCountry

\* getInitialCountry
getInitialCountry(list, props) ==
    LET byCountry == IF props.defaultCountry # ""
                     THEN getByIso2(list, props.defaultCountry) ELSE NoCountry
        byCode == IF props.defaultCode # <<>>
                  THEN getByDialCode(list, props.defaultCode) ELSE NoCountry
        initialValue == IF props.value # NoValue THEN props.value
                        ELSE props.defaultValue
        guessed == IF initialValue # <<>>
                   THEN guessCountryFromNumber(initialValue) ELSE NoCountry
    IN  IF byCountry # NoCountry THEN byCountry
        ELSE IF byCode # NoCountry THEN byCode
        ELSE IF guessed # NoCountry /\ InList(list, guessed) THEN guessed
        ELSE IF Len(list) > 0 THEN list[1]
        ELSE defaultCountry

\* the initial inputValue
initialInputValue(list, props) ==
    LET initial == IF props.value # NoValue THEN props.value
                   ELSE props.defaultValue
    IN  IF initial # <<>>
        THEN normalizePhoneValue(initial, getInitialCountry(list, props))
        ELSE <<"+">> \o getInitialCountry(list, props).dialCode

isControlled == controlledValue # NoValue

\* the codec at rest
CalcIdle == [op |-> "idle", x |-> <<>>, c |-> NoCountry, r |-> <<>>,
             r2 |-> <<>>]

-----------------------------------------------------------------------------
(* What one event does to the text field: `changed` tells whether onChange *)
(* was called, `text` is the value it was called with, `dom` and `sel` are *)
(* the field's content and selection when the handlers return, `sched` the *)
(* callbacks handed to requestAnimationFrame, `clip` the clipboard.        *)

NoEdit(value, sel, sched, clip) ==
    [changed |-> FALSE, text |-> value, dom |-> value, sel |-> sel,
     sched |-> sched, clip |-> clip]

\* default prevented, onChange(newValue), the caret set on the next frame
EngineEdit(value, s, e, newValue, caret, clip) ==
    [changed |-> TRUE, text |-> newValue, dom |-> value, sel |-> <<s, e>>,
     sched |-> <<[kind |-> "set", pos |-> caret]>>, clip |-> clip]

\* the field edits itself to d and PhoneInput.handleChange reports it
FieldEdit(d, country, clip) ==
    [changed |-> TRUE, text |-> handleChange(d.text, country), dom |-> d.text,
     sel |-> <<d.caret, d.caret>>, sched |-> <<>>, clip |-> clip]

\* a printable key: no handler prevents it
handleType(value, s, e, country, clip, ch) ==
    FieldEdit(DefaultInsert(value, s, e, <<ch>>), country, clip)

\* Backspace: handleKeyDown, then handleBeforeInput, then handleChange
handleBackspace(value, s, e, country, clip) ==
    LET protectedPos == getProtectedPosition(country)
        kd == BackspaceKeyDown(s, e, protectedPos)
    IN  IF kd = "edit"
        THEN EngineEdit(value, s, e,
                        RemoveUnprotected(value, protectedPos, e),
                        protectedPos, clip)
        ELSE IF \/ kd = "reject"
                \/ BeforeInputPrevents("deleteContentBackward", s, protectedPos)
                \/ DefaultBackspace(value, s, e).text = value
             THEN NoEdit(value, <<s, e>>, <<>>, clip)
             ELSE FieldEdit(DefaultBackspace(value, s, e), country, clip)

\* Delete: handleKeyDown, then handleBeforeInput, then handleChange
handleDelete(value, s, e, country, clip) ==
    LET protectedPos == getProtectedPosition(country)
        kd == DeleteKeyDown(s, e, protectedPos)
    IN  IF kd = "edit"
        THEN EngineEdit(value, s, e,
                        RemoveUnprotected(value, protectedPos, e),
                        protectedPos, clip)
        ELSE IF \/ kd = "reject"
                \/ BeforeInputPrevents("deleteContentForward", s, protectedPos)
                \/ DefaultDelete(value, s, e).text = value
             THEN NoEdit(value, <<s, e>>, <<>>, clip)
             ELSE FieldEdit(DefaultDelete(value, s, e), country, clip)

\* handleCut copying the whole selection, prefix characters included
handleCutWholeSelection(value, s, e, country, clip) ==
    LET protectedPos == getProtectedPosition(country)
        textToCopy == Slice(value, s, e)
    IN  IF s < protectedPos
        THEN IF textToCopy # <<>>
             THEN IF e > protectedPos
                  THEN EngineEdit(value, s, e,
                                  RemoveUnprotected(value, protectedPos, e),
                                  protectedPos, textToCopy)
                  ELSE NoEdit(value, <<s, e>>, <<>>, textToCopy)
             ELSE NoEdit(value, <<s, e>>, <<>>, clip)
        ELSE IF e > s /\ ~BeforeInputPrevents("deleteByCut", s, protectedPos)
             THEN FieldEdit(DefaultBackspace(value, s, e), country,
                            Slice(value, s, e))
             ELSE NoEdit(value, <<s, e>>, <<>>, clip)

\* handleCut, then handleBeforeInput and handleChange for the field's own cut
handleCut(value, s, e, country, clip) ==
    LET protectedPos == getProtectedPosition(country)
        textToCopy == Slice(value, Max(s, protectedPos), e)
    IN  IF s < protectedPos
        THEN IF textToCopy # <<>>
             THEN IF e > protectedPos
                  THEN EngineEdit(value, s, e,
                                  RemoveUnprotected(value, protectedPos, e),
                                  protectedPos, textToCopy)
                  ELSE NoEdit(value, <<s, e>>, <<>>, textToCopy)
             ELSE NoEdit(value, <<s, e>>, <<>>, clip)
        ELSE IF e > s /\ ~BeforeInputPrevents("deleteByCut", s, protectedPos)
             THEN FieldEdit(DefaultBackspace(value, s, e), country,
                            Slice(value, s, e))
             ELSE NoEdit(value, <<s, e>>, <<>>, clip)

\* handlePaste inserting the pasted text as it is
handlePasteRaw(value, s, e, country, clip, pastedText) ==
    LET protectedPos == getProtectedPosition(country)
        r == PasteRange(s, e, protectedPos)
    IN  IF pastedText = <<>> THEN NoEdit(value, <<s, e>>, <<>>, clip)
        ELSE EngineEdit(value, s, e,
                        Slice(value, 0, r.from) \o pastedText
                            \o SliceFrom(value, r.to),
                        r.from + Len(pastedText), clip)

\* handlePaste
handlePaste(value, s, e, country, clip, pastedText) ==
    LET protectedPos == getProtectedPosition(country)
        cleanedPaste == getDigitsOnly(pastedText)
        r == PasteRange(s, e, protectedPos)
    IN  IF cleanedPaste = <<>> THEN NoEdit(value, <<s, e>>, <<>>, clip)
        ELSE EngineEdit(value, s, e,
                        Slice(value, 0, r.from) \o cleanedPaste
                            \o SliceFrom(value, r.to),
                        r.from + Len(cleanedPaste), clip)

\* handleKeyDown, Home
handleHome(value, s, e, country, clip, shiftKey) ==
    LET protectedPos == getProtectedPosition(country)
    IN  NoEdit(value,
               SetSelectionRange(protectedPos,
                                 IF shiftKey THEN e ELSE protectedPos,
                                 Len(value)),
               <<>>, clip)

\* handleKeyDown, ArrowLeft, guarding only the positions before the prefix end
handleArrowLeftStrict(value, s, e, country, clip, shiftKey, backward) ==
    LET protectedPos == getProtectedPosition(country)
    IN  IF s < protectedPos
        THEN IF shiftKey THEN NoEdit(value, <<s, e>>, <<>>, clip)
             ELSE NoEdit(value,
                         SetSelectionRange(protectedPos, protectedPos,
                                           Len(value)),
                         <<>>, clip)
        ELSE IF ~shiftKey
             THEN NoEdit(value,
                         IF e > s THEN <<s, s>> ELSE <<s - 1, s - 1>>,
                         <<>>, clip)
             ELSE NoEdit(value,
                         IF backward \/ e = s THEN <<s - 1, e>>
                         ELSE <<s, e - 1>>,
                         <<>>, clip)

\* handleKeyDown, ArrowLeft; `backward` tells which end of a selection
\* Shift+ArrowLeft moves when the key is left to the field
handleArrowLeft(value, s, e, country, clip, shiftKey, backward) ==
    LET protectedPos == getProtectedPosition(country)
    IN  IF s <= protectedPos
        THEN IF shiftKey THEN NoEdit(value, <<s, e>>, <<>>, clip)
             ELSE NoEdit(value,
                         SetSelectionRange(protectedPos, protectedPos,
                                           Len(value)),
                         <<>>, clip)
        ELSE IF ~shiftKey
             THEN NoEdit(value,
                         IF e > s THEN <<s, s>> ELSE <<s - 1, s - 1>>,
                         <<>>, clip)
             ELSE NoEdit(value,
                         IF backward \/ e = s THEN <<s - 1, e>>
                         ELSE <<s, e - 1>>,
                         <<>>, clip)

\* handleClick and handleMouseUp: the pointer left the selection [s, e)
handlePointer(value, s, e, country, clip) ==
    NoEdit(value, <<s, e>>,
           <<[kind |-> "remap", pos |-> getProtectedPosition(country)]>>, clip)

\* handleFocus without the deferred correction
handleFocusNoDefer(value, s, country, clip) ==
    NoEdit(value, <<s, s>>, <<>>, clip)

\* handleFocus: the field placed the caret at s
handleFocus(value, s, country, clip) ==
    NoEdit(value, <<s, s>>,
           <<[kind |-> "focus", pos |-> getProtectedPosition(country)]>>, clip)

\* the callbacks, with the one of click and mouse-up collapsing the selection
runCallbackCollapsing(cb, s, e, n) ==
    IF cb.kind = "set" THEN SetSelectionRange(cb.pos, cb.pos, n)
    ELSE IF s < cb.pos THEN SetSelectionRange(cb.pos, cb.pos, n)
         ELSE <<s, e>>

\* the selection after a callback of requestAnimationFrame has run
runCallback(cb, s, e, n) ==
    IF cb.kind = "set" THEN SetSelectionRange(cb.pos, cb.pos, n)
    ELSE IF s < cb.pos
         THEN IF cb.kind = "remap" /\ e > cb.pos
              THEN SetSelectionRange(cb.pos, e, n)
              ELSE SetSelectionRange(cb.pos, cb.pos, n)
         ELSE <<s, e>>

\* effects that leave the state as it is
syncEffectsIdle(list, value, country, text) ==
    [text |-> text, country |-> country]

\* the controlled sync effect and the uncontrolled re-prefix effect: the
\* state they set from the render (value, country, text)
syncEffects(list, value, country, text) ==
    IF value # NoValue
    THEN LET normalized == normalizePhoneValue(value, country)
             guessed == guessCountryFromNumber(value)
         IN  IF normalized # text
             THEN [text |-> normalized,
                   country |-> IF /\ guessed # NoCountry
                                  /\ guessed.iso2 # country.iso2
                                  /\ InList(list, guessed)
                               THEN guessed ELSE country]
             ELSE [text |-> text, country |-> country]
    ELSE IF country # NoCountry /\ ~StartsWith(text, Prefix(country))
         THEN [text |-> Prefix(country)
                          \o SliceFrom(getDigitsOnly(text), Len(country.dialCode)),
               country |-> country]
         ELSE [text |-> text, country |-> country]

\* PhoneInput's cursor effect
cursorEffect(s, e, country, n) ==
    IF country # NoCountry /\ s < getProtectedPosition(country)
    THEN SetSelectionRange(getProtectedPosition(country),
                           getProtectedPosition(country), n)
    ELSE <<s, e>>

-----------------------------------------------------------------------------
(* The widget as a state machine.                                          *)

\* the props a widget is constructed with
Props(defaultCountryCode, defaultDialCode, value, defaultValue, only, exclude, distinct) ==
    [defaultCountry |-> defaultCountryCode, defaultCode |-> defaultDialCode,
     value |-> value, defaultValue |-> defaultValue, onlyCountries |-> only,
     excludeCountries |-> exclude, distinct |-> distinct]

\* the widgets the model constructs
InitProps ==
    { Props("US", <<>>, NoValue, <<>>, {}, {}, FALSE),
      Props("gb", <<>>, NoValue, <<"+", "4", "4", " ", "2", "0">>, {}, {"ca"},
            TRUE),
      Props("", <<>>, <<"+", "1", "2", "0">>, <<>>, {"US", "gb", "SG"}, {},
            FALSE),
      Props("", <<"+", "6", "5">>, <<"9", "1">>, <<>>, {}, {"GB"}, FALSE),
      Props("US", <<>>, <<"+", "4", "4", "2">>, <<>>, {"us", "GB"}, {}, FALSE) }

\* the widget of the documented example: US and "+12025551234"
ExampleText == <<"+", "1", "2", "0", "2", "5", "5", "5", "1", "2", "3", "4">>

ExampleProps == Props("US", <<>>, NoValue, ExampleText, {}, {}, FALSE)

\* the state after construction from props, with n events to go and the
\* user pointing at the positions up to m and at the end
Construct(props, n, m) ==
    /\ countries = FilterCountries(props.onlyCountries, props.excludeCountries,
                                   props.distinct)
    /\ controlledValue = props.value
    /\ selectedCountry = getInitialCountry(countries, props)
    /\ inputValue = initialInputValue(countries, props)
    /\ selStart \in {0, Len(inputValue)}
    /\ selEnd = selStart
    /\ raf = <<>>
    /\ clipboard = <<>>
    /\ emitted = <<>>
    /\ dirty = TRUE
    /\ last = [op |-> "construct"]
    /\ budget = n
    /\ reach = m
    /\ calc = CalcIdle

Init == \E props \in InitProps : Construct(props, MaxSteps, MaxCaret)

ExampleInit == Construct(ExampleProps, MaxExSteps, MaxExCaret)

\* the events that place the selection whatever it was
PlacingOps == {"Select", "Click", "Focus"}

\* the state an event starts from (without the selection it replaces)
Pre(op, arg) ==
    [op |-> op, arg |-> arg, text |-> inputValue, country |-> selectedCountry,
     s |-> IF op \in PlacingOps THEN 0 ELSE selStart,
     e |-> IF op \in PlacingOps THEN 0 ELSE selEnd,
     clip |-> clipboard, raf |-> raf, value |-> controlledValue]

\* whether the parent answers onChange by supplying value.fullNumber
Accepts == IF isControlled THEN BOOLEAN ELSE {FALSE}

\* the positions the user places the caret and the ends of a selection at
SelPositions == {p \in 0..Len(inputValue) : p <= reach \/ p = Len(inputValue)}

\* an event on the text field with the result res
Do(op, arg, res, accept) ==
    /\ ~dirty
    /\ budget > 0
    /\ Len(raf) + Len(res.sched) <= MaxRaf
    /\ last' = Pre(op, arg)
    /\ inputValue' = res.text
    /\ emitted' = IF res.changed
                  THEN <<parsePhoneNumber(res.text, selectedCountry)>>
                  ELSE <<>>
    /\ controlledValue' = IF res.changed /\ isControlled /\ accept
                          THEN emitted'[1].fullNumber
                          ELSE controlledValue
    /\ LET sel == SelectionAfterRender(res.dom, res.sel, res.text)
       IN  selStart' = sel[1] /\ selEnd' = sel[2]
    /\ raf' = raf \o res.sched
    /\ clipboard' = res.clip
    /\ dirty' = (inputValue' # inputValue \/ controlledValue' # controlledValue)
    /\ budget' = budget - 1
    /\ UNCHANGED <<countries, selectedCountry, reach, calc>>

\* the user moves the selection with keys no handler intercepts
Select ==
    \E s \in SelPositions, e \in SelPositions :
        /\ s <= e
        /\ <<s, e>> # <<selStart, selEnd>>
        /\ Do("Select", <<>>, NoEdit(inputValue, <<s, e>>, <<>>, clipboard), FALSE)

TypedChars == {"5", "a"}

Type ==
    \E ch \in TypedChars, accept \in Accepts :
        Do("Type", ch,
           handleType(inputValue, selStart, selEnd, selectedCountry, clipboard, ch),
           accept)

Backspace ==
    \E accept \in Accepts :
        Do("Backspace", <<>>,
           handleBackspace(inputValue, selStart, selEnd, selectedCountry, clipboard),
           accept)

Delete ==
    \E accept \in Accepts :
        Do("Delete", <<>>,
           handleDelete(inputValue, selStart, selEnd, selectedCountry, clipboard),
           accept)

Cut ==
    \E accept \in Accepts :
        Do("Cut", <<>>,
           handleCut(inputValue, selStart, selEnd, selectedCountry, clipboard),
           accept)

PastedTexts == {<<"9", "9", "9", "9">>, <<"7", "-", "7">>, <<"a">>}

Paste ==
    \E p \in PastedTexts, accept \in Accepts :
        Do("Paste", p,
           handlePaste(inputValue, selStart, selEnd, selectedCountry, clipboard, p),
           accept)

Home ==
    \E shiftKey \in BOOLEAN :
        Do("Home", shiftKey,
           handleHome(inputValue, selStart, selEnd, selectedCountry, clipboard,
                      shiftKey),
           FALSE)

ArrowLeft ==
    \E shiftKey \in BOOLEAN, backward \in BOOLEAN :
        Do("ArrowLeft", shiftKey,
           handleArrowLeft(inputValue, selStart, selEnd, selectedCountry,
                           clipboard, shiftKey, backward),
           FALSE)

\* a click or the end of a drag leaves the selection [s, e): handleClick and
\* handleMouseUp
Click ==
    \E s \in SelPositions, e \in SelPositions :
        /\ s <= e
        /\ Do("Click", <<>>,
              handlePointer(inputValue, s, e, selectedCountry, clipboard), FALSE)

Focus ==
    \E s \in SelPositions :
        Do("Focus", <<>>, handleFocus(inputValue, s, selectedCountry, clipboard),
           FALSE)

\* buildPhoneValue(val, country)
buildPhoneValue(val, country) == parsePhoneNumber(val, country)

\* ref.getValue()
getValue == buildPhoneValue(inputValue, selectedCountry)

\* the value handleCountryChange emits for the stale selection
countryChangeEmitsCurrent(newValue, current, country) ==
    buildPhoneValue(newValue, current)

\* onChange?.(buildPhoneValue(newValue, country)) of handleCountryChange
countryChangeEmits(newValue, current, country) ==
    buildPhoneValue(newValue, country)

\* handleCountryChange(country)
handleCountryChange(op, arg, country, accept) ==
    /\ ~dirty
    /\ budget > 0
    /\ last' = Pre(op, arg)
    /\ selectedCountry' = country
    /\ inputValue' = countryChangeValue(inputValue, selectedCountry, country)
    /\ emitted' = <<countryChangeEmits(inputValue', selectedCountry, country)>>
    /\ controlledValue' = IF isControlled /\ accept
                          THEN emitted'[1].fullNumber
                          ELSE controlledValue
    /\ LET sel == SelectionAfterRender(inputValue, <<selStart, selEnd>>,
                                       inputValue')
       IN  selStart' = sel[1] /\ selEnd' = sel[2]
    /\ dirty' = \/ inputValue' # inputValue
                \/ selectedCountry' # selectedCountry
                \/ controlledValue' # controlledValue
    /\ budget' = budget - 1
    /\ UNCHANGED <<countries, raf, clipboard, reach, calc>>

\* the user picks another country in the dropdown: CountrySelect.handleChange
CountryChange ==
    \E i \in 1..Len(countries), accept \in Accepts :
        /\ countries[i].iso2 # selectedCountry.iso2
        /\ handleCountryChange("CountryChange", countries[i].iso2, countries[i],
                               accept)

\* the codes setCountry is called with
SetCountryCodes == {"gb", "US", "XX"}

\* ref.setCountry(iso2)
SetCountry ==
    \E code \in SetCountryCodes, accept \in Accepts :
        IF getByIso2(countries, code) # NoCountry
        THEN handleCountryChange("SetCountry", code, getByIso2(countries, code),
                                 accept)
        ELSE /\ ~dirty
             /\ budget > 0
             /\ last' = Pre("SetCountry", code)
             /\ emitted' = <<>>
             /\ budget' = budget - 1
             /\ UNCHANGED <<countries, controlledValue, selectedCountry,
                            inputValue, selStart, selEnd, raf, clipboard, dirty,
                            reach, calc>>

\* ref.clear() that empties the field
clearValueEmpty(country) == <<>>

\* ref.clear(): the text it sets
clearValue(country) == <<"+">> \o country.dialCode

\* ref.clear()
Clear ==
    \E accept \in Accepts :
        /\ ~dirty
        /\ budget > 0
        /\ last' = Pre("Clear", <<>>)
        /\ inputValue' = clearValue(selectedCountry)
        /\ emitted' = <<parsePhoneNumber(inputValue', selectedCountry)>>
        /\ controlledValue' = IF isControlled /\ accept
                              THEN emitted'[1].fullNumber
                              ELSE controlledValue
        /\ LET sel == SelectionAfterRender(inputValue, <<selStart, selEnd>>,
                                           inputValue')
           IN  selStart' = sel[1] /\ selEnd' = sel[2]
        /\ dirty' = (inputValue' # inputValue \/ controlledValue' # controlledValue)
        /\ budget' = budget - 1
        /\ UNCHANGED <<countries, selectedCountry, raf, clipboard, reach, calc>>

\* the values the parent supplies on its own
SuppliedValues ==
    {<<"+", "4", "4", "2", "0">>, <<"1", "2">>, <<"+", "6", "5", "-", "9">>,
     <<"1", "+", "5">>}

\* the parent renders the widget with another value
SetControlledValue ==
    \E v \in SuppliedValues :
        /\ isControlled
        /\ ~dirty
        /\ budget > 0
        /\ v # controlledValue
        /\ last' = Pre("SetControlledValue", v)
        /\ controlledValue' = v
        /\ emitted' = <<>>
        /\ dirty' = TRUE
        /\ budget' = budget - 1
        /\ UNCHANGED <<countries, selectedCountry, inputValue, selStart, selEnd,
                       raf, clipboard, reach, calc>>

\* sync effects that report the text they store through onChange
syncEmitsStored(list, value, country, text) ==
    LET new == syncEffects(list, value, country, text)
    IN  IF new.text # text THEN <<buildPhoneValue(new.text, new.country)>>
        ELSE <<>>

\* the values the sync effects pass to onChange: they only call
\* setInputValue and setSelectedCountry
syncEmits(list, value, country, text) == <<>>

\* the effects of the committed render run: PhoneInput's cursor effect,
\* then the sync effects, whose state updates are rendered; last.arg keeps
\* the event whose render the effects follow
RunEffects ==
    /\ dirty
    /\ LET cur == cursorEffect(selStart, selEnd, selectedCountry, Len(inputValue))
           new == syncEffects(countries, controlledValue, selectedCountry,
                              inputValue)
           sel == SelectionAfterRender(inputValue, cur, new.text)
       IN  /\ inputValue' = new.text
           /\ selectedCountry' = new.country
           /\ selStart' = sel[1]
           /\ selEnd' = sel[2]
           /\ dirty' = (new.text # inputValue \/ new.country # selectedCountry)
    /\ last' = Pre("RunEffects", IF last.op = "RunEffects" THEN last.arg ELSE last.op)
    /\ emitted' = syncEmits(countries, controlledValue, selectedCountry,
                            inputValue)
    /\ UNCHANGED <<countries, controlledValue, raf, clipboard, budget, reach,
                   calc>>

\* the oldest callback of requestAnimationFrame runs
RunRaf ==
    /\ raf # <<>>
    /\ LET sel == runCallback(Head(raf), selStart, selEnd, Len(inputValue))
       IN  selStart' = sel[1] /\ selEnd' = sel[2]
    /\ raf' = Tail(raf)
    /\ last' = Pre("RunRaf", <<>>)
    /\ emitted' = <<>>
    /\ UNCHANGED <<countries, controlledValue, selectedCountry, inputValue,
                   clipboard, dirty, budget, reach, calc>>

Next ==
    \/ Select \/ Type \/ Backspace \/ Delete \/ Cut \/ Paste
    \/ Home \/ ArrowLeft \/ Click \/ Focus
    \/ CountryChange \/ SetCountry \/ Clear \/ SetControlledValue
    \/ RunEffects \/ RunRaf

Spec == Init /\ [][Next]_vars

\* the events that place or move the selection, typing and the choice of a
\* country, with the browser running every pending animation-frame
\* callback at the next frame
FramesNext ==
    \/ Select \/ Focus \/ Click \/ Home \/ ArrowLeft \/ Type
    \/ CountryChange \/ RunEffects \/ RunRaf

SpecFrames == Init /\ [][FramesNext]_vars /\ WF_vars(RunRaf)

\* the changes the sync effects answer to: a value from the parent, a
\* typed character, a chosen country; the effects of every committed
\* render are run
SyncNext ==
    \/ SetControlledValue \/ Type \/ CountryChange \/ RunEffects

SpecSync == Init /\ [][SyncNext]_vars /\ WF_vars(RunEffects)

ExampleNext ==
    \/ Select \/ Type \/ Backspace \/ Delete \/ Cut \/ Paste
    \/ CountryChange \/ SetCountry \/ Clear \/ RunEffects \/ RunRaf

SpecExample == ExampleInit /\ [][ExampleNext]_vars

-----------------------------------------------------------------------------
(* formatPhoneNumber                                                       *)

\* phone.replace(/[^\d+]/g, '')
keepDigitsAndPlus(phone) ==
    SelectSeq(phone, LAMBDA ch : IsDigit(ch) \/ ch = "+")

\* the walk over the template that stops at the last placeholder
RECURSIVE applyFormatTruncating(_, _, _, _, _)
applyFormatTruncating(format, cleanDigits, i, digitIndex, result) ==
    IF i <= Len(format) /\ digitIndex < Len(cleanDigits)
    THEN IF format[i] = "."
         THEN applyFormatTruncating(format, cleanDigits, i + 1, digitIndex + 1,
                                    Append(result, cleanDigits[digitIndex + 1]))
         ELSE applyFormatTruncating(format, cleanDigits, i + 1, digitIndex,
                                    Append(result, format[i]))
    ELSE result

\* the loop over the template and the append of the digits it left over;
\* i counts the template from 1, digitIndex the digits consumed
RECURSIVE applyFormat(_, _, _, _, _)
applyFormat(format, cleanDigits, i, digitIndex, result) ==
    IF i <= Len(format) /\ digitIndex < Len(cleanDigits)
    THEN IF format[i] = "."
         THEN applyFormat(format, cleanDigits, i + 1, digitIndex + 1,
                          Append(result, cleanDigits[digitIndex + 1]))
         ELSE applyFormat(format, cleanDigits, i + 1, digitIndex,
                          Append(result, format[i]))
    ELSE result \o SubSeq(cleanDigits, digitIndex + 1, Len(cleanDigits))

formatPhoneNumber(phone, country, disableParentheses) ==
    IF phone = <<>> THEN <<>>
    ELSE LET kept == keepDigitsAndPlus(phone)
             digits == IF ~StartsWith(kept, <<"+">>) /\ country # NoCountry
                       THEN <<"+">> \o country.dialCode \o kept
                       ELSE kept
         IN  IF country = NoCountry \/ country.format = <<>> THEN digits
             ELSE LET format ==
                          IF disableParentheses
                          THEN SelectSeq(country.format,
                                         LAMBDA ch : ch \notin {"(", ")"})
                          ELSE country.format
                      cleanDigits == IF StartsWith(digits, <<"+">>)
                                     THEN Tail(digits) ELSE digits
                  IN  applyFormat(format, cleanDigits, 1, 0, <<>>)

-----------------------------------------------------------------------------
(* The codec applied to bounded inputs.                                    *)

\* the characters of the texts handed to the codec
CodecChars == {"+", "1", "4", "5", "a"}

\* the texts of length n over CodecChars
RECURSIVE TextsOfLen(_)
TextsOfLen(n) ==
    IF n = 0 THEN {<<>>}
    ELSE {Append(t, ch) : t \in TextsOfLen(n - 1), ch \in CodecChars}

CodecTexts == UNION {TextsOfLen(n) : n \in 0..MaxTextLen}

CodecCountries == {NoCountry, US, GB}

WidgetIdle ==
    /\ countries = allCountries
    /\ controlledValue = NoValue
    /\ selectedCountry = US
    /\ inputValue = <<"+", "1">>
    /\ selStart = 2
    /\ selEnd = 2
    /\ raf = <<>>
    /\ clipboard = <<>>
    /\ emitted = <<>>
    /\ dirty = FALSE
    /\ last = [op |-> "idle"]
    /\ budget = 0
    /\ reach = 0

\* a run of n digits
RECURSIVE DigitRun(_)
DigitRun(n) == IF n = 0 THEN <<>> ELSE <<"5">> \o DigitRun(n - 1)

\* texts whose national part is as long as the validity bounds of
\* parsePhoneNumber, one shorter and one longer
BoundaryTexts ==
    {pre \o DigitRun(n) :
        pre \in {<<>>, <<"+">>, <<"1">>, <<"+", "1">>, <<"+", "4", "4">>},
        n \in {3, 4, 15, 16}}

\* texts with more digits than a template has placeholders
OverflowTexts ==
    {pre \o <<"1", "4", "5", "1", "4">> \o DigitRun(5)
         \o <<"4", "1", "5", "4", "1">> :
        pre \in {<<>>, <<"+">>}}

CodecInit ==
    /\ WidgetIdle
    /\ calc \in {[op |-> "input", x |-> x, c |-> c, r |-> <<>>, r2 |-> <<>>] :
                    x \in CodecTexts \cup BoundaryTexts \cup OverflowTexts,
                    c \in CodecCountries}

\* normalizePhoneValue(x, c)
Normalize ==
    /\ calc.op = "input"
    /\ calc' = [calc EXCEPT !.op = "normalize",
                            !.r = normalizePhoneValue(calc.x, calc.c)]
    /\ UNCHANGED widgetVars

\* normalizePhoneValue applied to its own result
NormalizeAgain ==
    /\ calc.op = "normalize"
    /\ calc' = [calc EXCEPT !.op = "normalize2",
                            !.r2 = normalizePhoneValue(calc.r, calc.c)]
    /\ UNCHANGED widgetVars

\* parsePhoneNumber(x, c)
Parse ==
    /\ calc.op = "input"
    /\ calc' = [op |-> "parse", x |-> calc.x, c |-> calc.c,
                p |-> parsePhoneNumber(calc.x, calc.c)]
    /\ UNCHANGED widgetVars

\* formatPhoneNumber(x, c, disableParentheses), for the country as it is and
\* for the same country without a template
Format ==
    /\ calc.op = "input"
    /\ \E disableParentheses \in BOOLEAN, template \in BOOLEAN :
          LET c == IF template THEN calc.c ELSE [calc.c EXCEPT !.format = <<>>]
          IN  calc' = [op |-> "format", x |-> calc.x, c |-> c,
                       dp |-> disableParentheses,
                       f |-> formatPhoneNumber(calc.x, c, disableParentheses)]
    /\ UNCHANGED widgetVars

\* the countries a country is switched to
SwitchCountries == {CA, SG, GB, US}

\* handleCountryChange(b) on a text that starts with the prefix of the
\* selected country c
Switch ==
    /\ calc.op = "input"
    /\ calc.c # NoCountry
    /\ StartsWith(calc.x, Prefix(calc.c))
    /\ \E b \in SwitchCountries \ {calc.c} :
          calc' = [op |-> "switch", x |-> calc.x, c |-> calc.c, b |-> b,
                   y |-> countryChangeValue(calc.x, calc.c, b)]
    /\ UNCHANGED widgetVars

\* handleCountryChange(c) on the text the switch to b left
SwitchBack ==
    /\ calc.op = "switch"
    /\ calc' = [calc EXCEPT !.op = "switchBack",
                            !.y = countryChangeValue(calc.y, calc.b, calc.c)]
    /\ UNCHANGED widgetVars

CodecNext ==
    \/ Normalize \/ NormalizeAgain \/ Parse \/ Format
    \/ Switch \/ SwitchBack

SpecCodec == CodecInit /\ [][CodecNext]_vars

-----------------------------------------------------------------------------
(* useCountries applied to bounded options.                                *)

\* the codes a caller names in onlyCountries and excludeCountries
FilterCodes == {"US", "gb", "GB", "CA", "sg"}

\* the codes a caller names in preferredCountries
PreferredCodes == {"gb", "US", "CA", "XX"}

\* the sequences of length n over PreferredCodes
RECURSIVE CodesOfLen(_)
CodesOfLen(n) ==
    IF n = 0 THEN {<<>>}
    ELSE {Append(t, code) : t \in CodesOfLen(n - 1), code \in PreferredCodes}

PreferredSeqs == UNION {CodesOfLen(n) : n \in 0..MaxPreferred}

\* the dial codes looked up
LookupCodes ==
    {<<"1">>, <<"+", "1">>, <<"4", "4">>, <<"+", "6", "5">>, <<"7">>}

\* the catalog, and a caller's options not yet applied
CountriesInit ==
    /\ WidgetIdle
    /\ calc \in {[op |-> "options", only |-> only, exclude |-> exclude,
                   distinct |-> distinct] :
                    only \in SUBSET FilterCodes, exclude \in SUBSET FilterCodes,
                    distinct \in BOOLEAN}

\* useCountries(options).countries
UseCountries ==
    /\ calc.op = "options"
    /\ countries' = FilterCountries(calc.only, calc.exclude, calc.distinct)
    /\ calc' = [calc EXCEPT !.op = "countries"]
    /\ UNCHANGED <<controlledValue, selectedCountry, inputValue, selStart,
                   selEnd, raf, clipboard, emitted, dirty, last, budget, reach>>

\* useCountries(options).preferred
UsePreferred ==
    /\ calc.op = "countries"
    /\ \E codes \in PreferredSeqs :
          calc' = [op |-> "preferred", only |-> calc.only,
                   exclude |-> calc.exclude, distinct |-> calc.distinct,
                   codes |-> codes, list |-> preferred(countries, codes)]
    /\ UNCHANGED widgetVars

\* useCountries(options).getByDialCode(code)
UseGetByDialCode ==
    /\ calc.op = "countries"
    /\ \E code \in LookupCodes :
          calc' = [op |-> "byDialCode", only |-> calc.only,
                   exclude |-> calc.exclude, distinct |-> calc.distinct,
                   code |-> code, country |-> getByDialCode(countries, code)]
    /\ UNCHANGED widgetVars

\* what is typed into the search box of the country list
SearchQueries ==
    {<<>>, <<"+">>, <<"1">>, <<"+", "1">>, <<"4", "4">>, <<"U", "S">>,
     <<"a", "n">>, <<"N", "i">>, <<"g">>, <<"x">>, <<" ">>, <<"a", " ">>,
     <<"c", "a", " ">>}

\* useCountries(options).search(query)
UseSearch ==
    /\ calc.op = "countries"
    /\ \E query \in SearchQueries :
          calc' = [op |-> "search", only |-> calc.only,
                   exclude |-> calc.exclude, distinct |-> calc.distinct,
                   query |-> query, found |-> search(countries, query)]
    /\ UNCHANGED widgetVars

\* the options of CountrySelect that filterOption keeps for an input
UseFilterOption ==
    /\ calc.op = "countries"
    /\ \E input \in SearchQueries :
          calc' = [op |-> "filterOption", only |-> calc.only,
                   exclude |-> calc.exclude, distinct |-> calc.distinct,
                   query |-> input,
                   found |-> SelectSeq(countries,
                                 LAMBDA c : filterOption(countries, input, c.iso2))]
    /\ UNCHANGED widgetVars

CountriesNext ==
    \/ UseCountries \/ UsePreferred \/ UseGetByDialCode
    \/ UseSearch \/ UseFilterOption

SpecCountries == CountriesInit /\ [][CountriesNext]_vars

-----------------------------------------------------------------------------
(* The construction of the widget from bounded props.                      *)

\* the props the widget is mounted with
MountProps ==
    {Props(dc, dd, v, dv, only, exclude, distinct) :
        dc \in {"", "US", "gb", "sg"},
        dd \in {<<>>, <<"+", "6", "5">>, <<"4", "4">>, <<"7">>},
        v \in {NoValue, <<>>, <<"+", "4", "4", "2", "0">>, <<"1", "2">>},
        dv \in {<<>>, <<"+", "6", "5", "-", "9">>},
        only \in {{}, {"US", "gb"}, {"CA", "sg"}, {"XX"}},
        exclude \in {{}, {"GB"}, {"us"}},
        distinct \in BOOLEAN}

\* the props, and no widget yet
MountInit ==
    /\ WidgetIdle
    /\ calc \in {[op |-> "props", props |-> props] : props \in MountProps}

\* the first render: useCountries, then the useState initialisers
Mount ==
    /\ calc.op = "props"
    /\ countries' = FilterCountries(calc.props.onlyCountries,
                                    calc.props.excludeCountries,
                                    calc.props.distinct)
    /\ controlledValue' = calc.props.value
    /\ selectedCountry' = getInitialCountry(countries', calc.props)
    /\ inputValue' = initialInputValue(countries', calc.props)
    /\ selStart' = Len(inputValue')
    /\ selEnd' = Len(inputValue')
    /\ calc' = [calc EXCEPT !.op = "mounted"]
    /\ UNCHANGED <<raf, clipboard, emitted, dirty, last, budget, reach>>

\* the effects of the first render
MountEffects ==
    /\ calc.op = "mounted"
    /\ LET eff == syncEffects(countries, controlledValue, selectedCountry,
                              inputValue)
       IN  /\ inputValue' = eff.text
           /\ selectedCountry' = eff.country
           /\ selStart' = Len(eff.text)
           /\ selEnd' = Len(eff.text)
    /\ calc' = [calc EXCEPT !.op = "effects"]
    /\ UNCHANGED <<countries, controlledValue, raf, clipboard, emitted, dirty,
                   last, budget, reach>>

MountNext == Mount \/ MountEffects

SpecMount == MountInit /\ [][MountNext]_vars

-----------------------------------------------------------------------------
(* The claims.                                                             *)

\* the protected prefix length of a country: 1 + len(dialCode)
P(c) == 1 + Len(c.dialCode)

\* the last step was a country chosen in the dropdown or by setCountry
CountryChosen ==
    /\ last.op \in {"CountryChange", "SetCountry"}
    /\ emitted # <<>>

-----------------------------------------------------------------------------
(* C1: in every reachable state of the widget, the states between the      *)
(* steps of controlled-value synchronisation included, the raw text is     *)
(* non-empty and starts with '+' and the dial code of the selected country.*)
C1_ProtectedPrefix ==
    /\ inputValue # <<>>
    /\ StartsWith(inputValue, Prefix(selectedCountry))

\* the same in the states in which no effect is pending
C1_ProtectedPrefixSettled ==
    ~dirty => C1_ProtectedPrefix

-----------------------------------------------------------------------------
(* C2: normalize is idempotent: normalizing the result of normalize(x, c)  *)
(* with the same country c (the null country included) gives that result   *)
(* again.                                                                  *)
C2_NormalizeIdempotent ==
    calc.op = "normalize2" => calc.r2 = calc.r

\* a text without the prefix was normalized twice for a country
C2_Witness ==
    /\ calc.op = "normalize2"
    /\ calc.c = GB
    /\ calc.x = <<"+", "4", "5">>
    /\ calc.r = <<"+", "4", "4", "4", "5">>

(* C3: for a non-null country c, normalize(x, c) is '+', c's dial code and *)
(* then digits only: the digits behind the prefix of x when x (reduced to  *)
(* digits and '+') starts with '+dialCode' or 'dialCode', all digits of x  *)
(* otherwise.                                                              *)
C3_NormalizeShape ==
    (calc.op = "normalize" /\ calc.c # NoCountry) =>
        LET cleaned == KeepDigitsPlus(calc.x)
            plus == <<"+">> \o calc.c.dialCode
            national ==
                IF StartsWith(cleaned, plus)
                THEN getDigitsOnly(SliceFrom(cleaned, Len(plus)))
                ELSE IF StartsWith(cleaned, calc.c.dialCode)
                     THEN getDigitsOnly(SliceFrom(cleaned, Len(calc.c.dialCode)))
                     ELSE getDigitsOnly(calc.x)
        IN  calc.r = plus \o national

(* C4: Backspace with no selection and the caret at a position <= P is     *)
(* rejected: text, caret, selected country and the pending callbacks are   *)
(* unchanged and no value is emitted.                                      *)
C4_BackspaceInPrefixRejected ==
    (/\ last.op = "Backspace"
     /\ last.s = last.e
     /\ last.s <= P(last.country)) =>
        /\ inputValue = last.text
        /\ selStart = last.s
        /\ selEnd = last.e
        /\ selectedCountry = last.country
        /\ raf = last.raf
        /\ controlledValue = last.value
        /\ emitted = <<>>

\* Backspace was pressed with the caret right behind the prefix of a text
\* that has national digits
C4_Witness ==
    /\ last.op = "Backspace"
    /\ last.s = last.e
    /\ last.s = P(last.country)
    /\ Len(last.text) > P(last.country)
    /\ inputValue = last.text

\* the text and the caret the spec gives for Backspace at caret 5
SpecBackspaceAt5 == <<"+", "1", "2", "0", "2", "5", "5", "1", "2", "3", "4">>

\* the documented example with the caret at 5 and no selection
ExampleBackspaceAt5 ==
    /\ last.op = "Backspace"
    /\ last.text = ExampleText
    /\ last.country = US
    /\ last.s = 5
    /\ last.e = 5

(* C5 as stated: for US and "+12025551234", Backspace with the caret at 5  *)
(* yields "+1202551234" with the caret at 4.                               *)
C5_AsStated ==
    ExampleBackspaceAt5 =>
        inputValue = SpecBackspaceAt5 /\ selStart = 4 /\ selEnd = 4

(* C5, amended: for US and "+12025551234", Backspace with no selection and *)
(* the caret at 5 removes the character before the caret, the '2' at       *)
(* position 4: the text is "+1205551234", the caret is at 4, and one value *)
(* is emitted.                                                             *)
C5_BackspaceAt5 ==
    ExampleBackspaceAt5 =>
        /\ inputValue = <<"+", "1", "2", "0", "5", "5", "5", "1", "2", "3", "4">>
        /\ selStart = 4
        /\ selEnd = 4
        /\ Len(emitted) = 1

C5_Witness ==
    /\ ExampleBackspaceAt5
    /\ Len(inputValue) = Len(ExampleText) - 1

\* the documented example with [0, 5) selected
ExampleBackspaceOver0To5 ==
    /\ last.op = "Backspace"
    /\ last.text = ExampleText
    /\ last.country = US
    /\ last.s = 0
    /\ last.e = 5

\* the callback that sets the caret to position 2 ran on the text t
CaretCallbackRan(t, pos) ==
    /\ last.op = "RunRaf"
    /\ last.text = t
    /\ Head(last.raf) = [kind |-> "set", pos |-> pos]

(* C6 as stated: for US and "+12025551234", Backspace over [0, 5) yields   *)
(* "+1551234".                                                             *)
C6_AsStated ==
    ExampleBackspaceOver0To5 =>
        inputValue = <<"+", "1", "5", "5", "1", "2", "3", "4">>

(* C6, amended: for US and "+12025551234", Backspace over [0, 5) yields    *)
(* "+15551234" (the prefix kept, the characters [2, 5) removed), and the   *)
(* caret is set to 2 by the callback scheduled for the next frame.         *)
C6_BackspaceOverPrefix ==
    /\ ExampleBackspaceOver0To5 =>
          /\ inputValue = <<"+", "1", "5", "5", "5", "1", "2", "3", "4">>
          /\ raf = Append(last.raf, [kind |-> "set", pos |-> 2])
          /\ Len(emitted) = 1
    /\ CaretCallbackRan(<<"+", "1", "5", "5", "5", "1", "2", "3", "4">>, 2) =>
          selStart = 2 /\ selEnd = 2

C6_Witness ==
    /\ CaretCallbackRan(<<"+", "1", "5", "5", "5", "1", "2", "3", "4">>, 2)
    /\ selStart = 2

\* the documented example with [0, 3) selected and "9999" pasted
ExamplePasteOver0To3 ==
    /\ last.op = "Paste"
    /\ last.arg = <<"9", "9", "9", "9">>
    /\ last.text = ExampleText
    /\ last.country = US
    /\ last.s = 0
    /\ last.e = 3

\* "+1", the pasted "9999" and what followed position 3
PastedOver0To3 ==
    <<"+", "1", "9", "9", "9", "9", "0", "2", "5", "5", "5", "1", "2", "3", "4">>

C8_TrimOnCountryChange ==
    (/\ CountryChosen
     /\ Len(getDigitsOnly(SliceFrom(last.text, P(last.country))))
            > MaxNational(selectedCountry)) =>
        inputValue = <<"+">> \o selectedCountry.dialCode
            \o SubSeq(getDigitsOnly(SliceFrom(last.text, P(last.country))), 1,
                      MaxNational(selectedCountry))

(* C9: after a typed change or a paste the number of national digits does  *)
(* not exceed the maximum length of the selected country.                  *)
C9_ClampOnInsert ==
    last.op \in {"Type", "Paste"} =>
        Len(getDigitsOnly(SliceFrom(inputValue, P(selectedCountry))))
            <= MaxNational(selectedCountry)

CountryChanged ==
    /\ last.op \notin {"construct", "idle"}
    /\ selectedCountry # last.country

(* C11: the selected country changes only when a country is chosen in the  *)
(* dropdown or by setCountry; no other event (typing, Backspace, Delete,   *)
(* cut, paste, click, focus, clear, an externally supplied controlled      *)
(* value) changes it.                                                      *)
C11_CountryChangesOnlyByChoice ==
    CountryChanged => last.op \in {"CountryChange", "SetCountry"}

\* what holds instead: besides a choice, only the sync effect of a
\* controlled widget changes the selected country, to the country guessed
\* from the controlled value, a member of the working list
C11_ChoiceOrControlledSync ==
    CountryChanged =>
        \/ last.op \in {"CountryChange", "SetCountry"}
        \/ /\ last.op = "RunEffects"
           /\ isControlled
           /\ selectedCountry = guessCountryFromNumber(controlledValue)
           /\ \E i \in 1..Len(countries) : countries[i] = selectedCountry

C13_FullNumberComposed ==
    (calc.op = "parse" /\ calc.c # NoCountry) =>
        calc.p.fullNumber
            = <<"+">> \o calc.c.dialCode \o calc.p.nationalNumber

Reduced(x) == SelectSeq(x, LAMBDA ch : ch = "+" \/ ch \in DigitChars)

\* a text without its first character if that is a '+'
LessLeadingPlus(x) == IF x # <<>> /\ x[1] = "+" THEN Tail(x) ELSE x

Named(codes, c) == \E x \in codes : toUpperCase(x) = toUpperCase(c.iso2)

\* the catalog's i-th country passes the 'only' and 'exclude' options
Survives(i) ==
    /\ calc.only = {} \/ Named(calc.only, allCountries[i])
    /\ ~Named(calc.exclude, allCountries[i])

\* it also is the first survivor with its dial code, if distinct is set
Kept(i) ==
    /\ Survives(i)
    /\ calc.distinct =>
          \A j \in 1..(i - 1) :
              Survives(j) => allCountries[j].dialCode # allCountries[i].dialCode

\* the catalog position of the k-th country of the working list
CatalogPos(k) == CHOOSE i \in 1..Len(allCountries) : allCountries[i] = countries[k]

(* C15: the working list is the catalog filtered by 'only', then by        *)
(* 'exclude', then, if distinct, reduced to the first country per dial     *)
(* code in catalog order, codes compared case-insensitively; it is in      *)
(* catalog order with no ISO2 code twice, and a code named in both 'only'  *)
(* and 'exclude' is absent.                                                *)
C15_WorkingList ==
    calc.op = "countries" =>
        /\ \A k \in 1..Len(countries) :
              \E i \in 1..Len(allCountries) :
                  Kept(i) /\ allCountries[i] = countries[k]
        /\ \A i \in 1..Len(allCountries) :
              Kept(i) => \E k \in 1..Len(countries) : countries[k] = allCountries[i]
        /\ \A k \in 1..Len(countries), l \in 1..Len(countries) :
              k < l => /\ CatalogPos(k) < CatalogPos(l)
                       /\ countries[k].iso2 # countries[l].iso2
        /\ \A k \in 1..Len(countries) :
              ~(Named(calc.only, countries[k]) /\ Named(calc.exclude, countries[k]))

\* 'only' in lower case, a code in both sets, distinct: Canada alone is left
C15_Witness ==
    /\ calc.op = "countries"
    /\ calc.only = {"gb", "CA", "US"}
    /\ calc.exclude = {"GB"}
    /\ calc.distinct
    /\ countries = <<CA>>

(* C16: with onlyCountries = [US, GB, CA] and distinct the working list    *)
(* has exactly two countries, GB and exactly one of US and CA; in general, *)
(* with distinct, every dial code of a country that survives 'only' and    *)
(* 'exclude' is the dial code of exactly one country of the working list.  *)
C16_DistinctDialCodes ==
    (calc.op = "countries" /\ calc.distinct) =>
        /\ \A i \in 1..Len(allCountries) :
              Survives(i) =>
                Cardinality({k \in 1..Len(countries) :
                    countries[k].dialCode = allCountries[i].dialCode}) = 1
        /\ (calc.only = {"US", "GB", "CA"} /\ calc.exclude = {}) =>
              /\ Len(countries) = 2
              /\ \E k \in 1..2 : countries[k] = GB
              /\ Cardinality({k \in 1..2 : countries[k] \in {US, CA}}) = 1

C16_Witness ==
    /\ calc.op = "countries"
    /\ calc.distinct
    /\ calc.only = {"US", "GB", "CA"}
    /\ calc.exclude = {}
    /\ Len(countries) = 2

\* the positions of the caller's preferred codes that name a country of the
\* working list
PreferredHits ==
    {n \in 1..Len(calc.codes) :
        \E i \in 1..Len(countries) :
            toUpperCase(countries[i].iso2) = toUpperCase(calc.codes[n])}

\* the k-th of them
KthHit(k) ==
    CHOOSE n \in PreferredHits :
        Cardinality({m \in PreferredHits : m < n}) = k - 1

(* C17: the preferred list holds, in the order of the caller's codes and   *)
(* one per code, the countries of the working list the codes name          *)
(* (case-insensitively); a code that names no country of the working list  *)
(* contributes nothing, so every entry is a member of the working list.    *)
C17_PreferredList ==
    calc.op = "preferred" =>
        /\ Len(calc.list) = Cardinality(PreferredHits)
        /\ \A k \in 1..Len(calc.list) :
              /\ \E i \in 1..Len(countries) : countries[i] = calc.list[k]
              /\ toUpperCase(calc.list[k].iso2) = toUpperCase(calc.codes[KthHit(k)])

\* US is excluded and named first: the preferred list is GB alone
C17_Witness ==
    /\ calc.op = "preferred"
    /\ calc.exclude = {"US"}
    /\ calc.only = {}
    /\ calc.codes = <<"US", "gb">>
    /\ calc.list = <<GB>>

\* the catalog's match for a dial code: the country flagged as primary, the
\* first in catalog order otherwise; NoCountry if there is none
PrimaryFor(code) ==
    LET sharing == {i \in 1..Len(allCountries) : allCountries[i].dialCode = code}
    IN  IF sharing = {} THEN NoCountry
        ELSE allCountries[CHOOSE i \in sharing : \A j \in sharing :
                \/ allCountries[i].priority < allCountries[j].priority
                \/ allCountries[i].priority = allCountries[j].priority /\ i <= j]

(* C18 as stated: the dial-code lookup strips a leading '+' and returns    *)
(* the primary country of the dial code, the first in catalog order if     *)
(* none is flagged, whatever the working list contains.                    *)
C18_AsStated ==
    calc.op = "byDialCode" =>
        calc.country = PrimaryFor(LessLeadingPlus(calc.code))

(* C18, amended: the dial-code lookup strips a leading '+' and returns the *)
(* first country of the working list that has the dial code; only when the *)
(* working list has none does it return the catalog's match, the country   *)
(* flagged as primary or else the first in catalog order.                  *)
C18_ByDialCode ==
    calc.op = "byDialCode" =>
        LET code == LessLeadingPlus(calc.code)
            inList == {k \in 1..Len(countries) : countries[k].dialCode = code}
        IN  IF inList # {}
            THEN calc.country = countries[CHOOSE k \in inList :
                                            \A l \in inList : k <= l]
            ELSE calc.country = PrimaryFor(code)

\* with US excluded the lookup of "+1" gives Canada
C18_Witness ==
    /\ calc.op = "byDialCode"
    /\ calc.exclude = {"US"}
    /\ calc.code = <<"+", "1">>
    /\ calc.country = CA

\* the sync effect has settled on a value the parent supplied, at
\* construction or later
SuppliedValueSettled ==
    /\ isControlled
    /\ ~dirty
    /\ last.op = "RunEffects"
    /\ last.arg \in {"construct", "SetControlledValue"}

(* C19: in controlled mode, once a supplied value whose dial code maps to  *)
(* a country other than the selected one has been synced, the guessed      *)
(* country is selected if it is in the working list, and otherwise the     *)
(* selected country is kept and the text is the normalized value; for the  *)
(* first supplied value as for the later ones.                             *)
C19_ControlledSwitch ==
    SuppliedValueSettled =>
        LET guessed == guessCountryFromNumber(controlledValue)
        IN  IF /\ guessed # NoCountry
               /\ \E i \in 1..Len(countries) : countries[i].iso2 = guessed.iso2
            THEN selectedCountry = guessed
            ELSE /\ selectedCountry = last.country
                 /\ inputValue = normalizePhoneValue(controlledValue,
                                                     selectedCountry)

\* what holds: the same for the values supplied after construction
C19_LaterValues ==
    (SuppliedValueSettled /\ last.arg = "SetControlledValue") =>
        C19_ControlledSwitch

\* Backspace was pressed on a selection [s, e) with s < P <= e
BackspaceAcrossPrefix ==
    /\ last.op = "Backspace"
    /\ last.s < P(last.country)
    /\ P(last.country) <= last.e

\* the text without the characters [P, e) of the selection
PrefixThenRest ==
    SubSeq(last.text, 1, P(last.country))
        \o SubSeq(last.text, last.e + 1, Len(last.text))

\* the caret is at P or the callback that puts it there is scheduled
CollapsesToPrefix ==
    \/ selStart = P(last.country) /\ selEnd = P(last.country)
    \/ raf = Append(last.raf, [kind |-> "set", pos |-> P(last.country)])

(* C20 as stated: Backspace on a selection [s, e) with s < P <= e gives    *)
(* text[0..P) + text[e..] and collapses the caret to P, also when e = P.   *)
C20_AsStated ==
    BackspaceAcrossPrefix =>
        inputValue = PrefixThenRest /\ CollapsesToPrefix

(* C20, amended: Backspace on a selection [s, e) with s < P < e removes    *)
(* only [P, e): the text is text[0..P) + text[e..], one value is emitted   *)
(* and the callback scheduled for the next frame sets the caret to P; when *)
(* e = P the key is rejected: text and selection stay as they are, nothing *)
(* is emitted and nothing is scheduled.                                    *)
C20_BackspaceAcrossPrefix ==
    /\ (BackspaceAcrossPrefix /\ last.e > P(last.country)) =>
          /\ inputValue = PrefixThenRest
          /\ Len(emitted) = 1
          /\ raf = Append(last.raf, [kind |-> "set", pos |-> P(last.country)])
    /\ (BackspaceAcrossPrefix /\ last.e = P(last.country)) =>
          /\ inputValue = last.text
          /\ selStart = last.s
          /\ selEnd = last.e
          /\ emitted = <<>>
          /\ raf = last.raf
    /\ (last.op = "RunRaf" /\ Head(last.raf).kind = "set"
            /\ Head(last.raf).pos <= Len(inputValue)) =>
          selStart = Head(last.raf).pos /\ selEnd = Head(last.raf).pos

\* Backspace on a selection that ends exactly at the protected position
C20_Witness ==
    /\ BackspaceAcrossPrefix
    /\ last.e = P(last.country)
    /\ Len(last.text) > P(last.country)
    /\ selStart = last.s
    /\ selEnd = last.e

-----------------------------------------------------------------------------
\* Delete was pressed with the selection starting inside the prefix
DeleteInPrefix ==
    last.op = "Delete" /\ last.s < P(last.country)

(* C21: Delete with selectionStart < P. When selectionEnd > P the text     *)
(* becomes text[0..P) + text[selectionEnd..], one value is emitted and the *)
(* callback scheduled for the next frame collapses the caret to P; when    *)
(* selectionEnd <= P nothing changes: text, selection and pending          *)
(* callbacks stay and nothing is emitted. The first P characters of the    *)
(* text are the same after the key in both cases.                          *)
C21_DeleteInPrefix ==
    /\ (DeleteInPrefix /\ last.e > P(last.country)) =>
          /\ inputValue = PrefixThenRest
          /\ Len(emitted) = 1
          /\ raf = Append(last.raf, [kind |-> "set", pos |-> P(last.country)])
    /\ (DeleteInPrefix /\ last.e <= P(last.country)) =>
          /\ inputValue = last.text
          /\ selStart = last.s
          /\ selEnd = last.e
          /\ emitted = <<>>
          /\ raf = last.raf
    /\ DeleteInPrefix =>
          SubSeq(inputValue, 1, P(last.country))
              = SubSeq(last.text, 1, P(last.country))

\* Delete removed the unprotected part of a selection that began in the prefix
C21_Witness ==
    /\ DeleteInPrefix
    /\ last.e > P(last.country)
    /\ inputValue = PrefixThenRest
    /\ Len(inputValue) < Len(last.text)

-----------------------------------------------------------------------------
\* Cut was invoked with the selection starting inside the prefix
CutInPrefix ==
    last.op = "Cut" /\ last.s < P(last.country)

(* C22: Cut with a selection [s, e), s < P. When e > P the clipboard       *)
(* receives exactly text[P..e), the text becomes text[0..P) + text[e..],   *)
(* one value is emitted and the callback scheduled for the next frame      *)
(* collapses the caret to P; when e <= P the clipboard is not written and  *)
(* text and selection are unchanged.                                       *)
C22_CutInPrefix ==
    /\ (CutInPrefix /\ last.e > P(last.country)) =>
          /\ clipboard = SubSeq(last.text, P(last.country) + 1, last.e)
          /\ inputValue = PrefixThenRest
          /\ Len(emitted) = 1
          /\ raf = Append(last.raf, [kind |-> "set", pos |-> P(last.country)])
    /\ (CutInPrefix /\ last.e <= P(last.country)) =>
          /\ clipboard = last.clip
          /\ inputValue = last.text
          /\ selStart = last.s
          /\ selEnd = last.e
          /\ emitted = <<>>
          /\ raf = last.raf

\* a cut across the prefix put only the unprotected characters on the clipboard
C22_Witness ==
    /\ CutInPrefix
    /\ last.e > P(last.country)
    /\ clipboard # <<>>
    /\ clipboard # last.clip
    /\ clipboard = SubSeq(last.text, P(last.country) + 1, last.e)

-----------------------------------------------------------------------------
\* the digits of the pasted text, in order
PastedDigits ==
    SelectSeq(last.arg, LAMBDA ch : ch \in DigitChars)

\* where the paste goes: the selection, kept out of the prefix
PasteFrom ==
    IF last.s < P(last.country) THEN P(last.country) ELSE last.s

PasteTo ==
    IF last.s < P(last.country)
    THEN IF last.e > P(last.country) THEN last.e ELSE P(last.country)
    ELSE last.e

-----------------------------------------------------------------------------
\* formatPhoneNumber was applied to a digit string with an optional leading '+'
FormatOfDigitString ==
    /\ calc.op = "format"
    /\ LET body == IF calc.x # <<>> /\ calc.x[1] = "+" THEN Tail(calc.x)
                   ELSE calc.x
       IN  \A i \in 1..Len(body) : body[i] \in DigitChars

HasLeadingPlus == calc.x # <<>> /\ calc.x[1] = "+"

\* the digits the output has to show: those of the input, after the dial
\* code when the input had no leading '+'
ExpectedDigits ==
    LET d == SelectSeq(calc.x, LAMBDA ch : ch \in DigitChars)
    IN  IF HasLeadingPlus THEN d ELSE calc.c.dialCode \o d

OutputDigits == SelectSeq(calc.f, LAMBDA ch : ch \in DigitChars)

Placeholders == CountChar(calc.c.format, ".")

\* the length of the template that is walked
TemplateLen ==
    Len(calc.c.format)
        - (IF calc.dp
           THEN CountChar(calc.c.format, "(") + CountChar(calc.c.format, ")")
           ELSE 0)

\* overflow raw after the templated part, no parentheses when they are
\* disabled, the digits as they are when the country has no template
FormatLayout ==
    /\ (calc.c.format # <<>> /\ Len(ExpectedDigits) > Placeholders) =>
          /\ Len(calc.f) = TemplateLen + Len(ExpectedDigits) - Placeholders
          /\ SubSeq(calc.f, TemplateLen + 1, Len(calc.f))
                = SubSeq(ExpectedDigits, Placeholders + 1, Len(ExpectedDigits))
    /\ calc.dp => CountChar(calc.f, "(") + CountChar(calc.f, ")") = 0
    /\ calc.c.format = <<>> =>
          calc.f = IF HasLeadingPlus \/ calc.c.iso2 = "" THEN calc.x
                   ELSE <<"+">> \o calc.c.dialCode \o calc.x

(* C24 as stated: for every digit string, the empty one included, and      *)
(* every country the digits of format's output are the input digits, after *)
(* the dial code when the input had no leading '+'.                        *)
C24_AsStated ==
    FormatOfDigitString => OutputDigits = ExpectedDigits /\ FormatLayout

(* C24, amended: format of the empty string is the empty string, without   *)
(* the dial code. For every non-empty digit string with an optional        *)
(* leading '+' and every country, removing the non-digits from the output  *)
(* gives the input digits, after the country's dial code when the input    *)
(* had no leading '+'; digits beyond the placeholders follow the templated *)
(* part raw; with disableParentheses the output has no '(' and no ')';     *)
(* without a template the digits are returned as they are.                 *)
C24_FormatKeepsDigits ==
    /\ (FormatOfDigitString /\ calc.x # <<>>) =>
          OutputDigits = ExpectedDigits /\ FormatLayout
    /\ (FormatOfDigitString /\ calc.x = <<>>) => calc.f = <<>>

\* more digits than placeholders, formatted for the United States without
\* parentheses: "+1 145 145-5555" and the overflow "41541"
C24_Witness ==
    /\ FormatOfDigitString
    /\ calc.c = US
    /\ calc.dp
    /\ ~HasLeadingPlus
    /\ Len(ExpectedDigits) > Placeholders
    /\ calc.f = <<"+", "1", " ", "1", "4", "5", " ", "1", "4", "5", "-",
                  "5", "5", "5", "5", "4", "1", "5", "4", "1">>

-----------------------------------------------------------------------------
(* C25: after every Home key press the selection starts at P: without      *)
(* Shift it is the caret [P, P], with Shift it is [P, previous             *)
(* selectionEnd].                                                          *)
C25_HomeStartsAtPrefix ==
    last.op = "Home" =>
        /\ selStart = P(last.country)
        /\ selEnd = IF last.arg THEN last.e ELSE P(last.country)

\* the same for the key presses that do not have Shift held with the
\* selection ending inside the prefix
C25_HomeFromOutsidePrefix ==
    (last.op = "Home" /\ (last.arg => last.e >= P(last.country))) =>
        /\ selStart = P(last.country)
        /\ selEnd = IF last.arg THEN last.e ELSE P(last.country)
        /\ inputValue = last.text
        /\ emitted = <<>>

-----------------------------------------------------------------------------
\* ArrowLeft was pressed with the selection starting at or before P
ArrowLeftAtPrefix ==
    last.op = "ArrowLeft" /\ last.s <= P(last.country)

(* C26: ArrowLeft with selectionStart <= P never moves the caret into the  *)
(* prefix: without Shift the selection becomes the caret [P, P]; with      *)
(* Shift the key is rejected and the selection stays as it was. The text   *)
(* is unchanged and nothing is emitted.                                    *)
C26_ArrowLeftAtPrefix ==
    ArrowLeftAtPrefix =>
        /\ IF last.arg
           THEN selStart = last.s /\ selEnd = last.e
           ELSE selStart = P(last.country) /\ selEnd = P(last.country)
        /\ inputValue = last.text
        /\ emitted = <<>>
        /\ raf = last.raf

\* ArrowLeft with the caret exactly at P left it at P
C26_Witness ==
    /\ ArrowLeftAtPrefix
    /\ ~last.arg
    /\ last.s = P(last.country)
    /\ last.e = P(last.country)
    /\ Len(last.text) > P(last.country)
    /\ selStart = P(last.country)
    /\ selEnd = P(last.country)

-----------------------------------------------------------------------------
\* the callback of a click or mouse-up ran, for the prefix of the country
\* that is selected
RemapRan ==
    /\ last.op = "RunRaf"
    /\ Head(last.raf).kind = "remap"
    /\ Head(last.raf).pos = P(last.country)

(* C27: a click or mouse-up changes no text and schedules one callback for *)
(* the next frame. When it runs on a selection [s, e) with s < P the       *)
(* selection becomes [P, e) if e > P and the caret [P, P] if e <= P; a     *)
(* selection with s >= P is left as it is. The callback changes no text    *)
(* either.                                                                 *)
C27_ClickRemap ==
    /\ last.op = "Click" =>
          /\ inputValue = last.text
          /\ emitted = <<>>
          /\ raf = Append(last.raf, [kind |-> "remap", pos |-> P(last.country)])
    /\ RemapRan =>
          /\ inputValue = last.text
          /\ emitted = <<>>
          /\ raf = Tail(last.raf)
          /\ IF last.s < P(last.country)
             THEN /\ selStart = P(last.country)
                  /\ selEnd = IF last.e > P(last.country) THEN last.e
                              ELSE P(last.country)
             ELSE selStart = last.s /\ selEnd = last.e

\* a selection reaching from the prefix into the number was cut back to [P, e)
C27_Witness ==
    /\ RemapRan
    /\ last.s < P(last.country)
    /\ last.e > P(last.country)
    /\ selStart = P(last.country)
    /\ selEnd = last.e

-----------------------------------------------------------------------------
\* a focus event has left the caret inside the prefix
FocusLeftCaretInPrefix ==
    last.op = "Focus" /\ selStart < P(selectedCountry)

\* the callback of a focus event ran
FocusCallbackRan ==
    last.op = "RunRaf" /\ Head(last.raf).kind = "focus"

\* the focus handler only schedules one callback; the callback moves a
\* caret that is before P to P, never the text (P is the prefix length the
\* callback was scheduled with, that of the country still selected)
FocusDefersOneStep ==
    /\ last.op = "Focus" =>
          /\ inputValue = last.text
          /\ selEnd = selStart
          /\ emitted = <<>>
          /\ raf = Append(last.raf, [kind |-> "focus", pos |-> P(last.country)])
    /\ FocusCallbackRan =>
          /\ inputValue = last.text
          /\ emitted = <<>>
          /\ raf = Tail(last.raf)
    /\ (FocusCallbackRan /\ Head(last.raf).pos = P(last.country)) =>
          IF last.s < P(last.country)
          THEN selStart = P(last.country) /\ selEnd = P(last.country)
          ELSE selStart = last.s /\ selEnd = last.e

(* C28: a focus event that leaves the caret at a position < P does not     *)
(* move it inline: it schedules exactly one callback and changes no text.  *)
(* The callback eventually runs, and when it runs on a caret before P it   *)
(* puts the caret at P, in one step and without changing the text.         *)
C28_FocusEventuallyAtPrefix ==
    /\ []FocusDefersOneStep
    /\ FocusLeftCaretInPrefix ~> FocusCallbackRan

\* the callback of a focus event moved the caret from the prefix to P
C28_Witness ==
    /\ FocusCallbackRan
    /\ last.s < Head(last.raf).pos
    /\ Head(last.raf).pos = P(selectedCountry)
    /\ selStart = P(selectedCountry)
    /\ selEnd = P(selectedCountry)

-----------------------------------------------------------------------------
\* q occurs in s
Occurs(q, s) ==
    \E i \in 1..(Len(s) - Len(q) + 1) :
        \A k \in 1..Len(q) : s[i + k - 1] = q[k]

\* the query as the claim reads it: in lower case, less a leading '+'
QueryAsRead == LessLeadingPlus(toLowerCase(calc.query))

\* the countries of the working list that have q in their name, ISO2 code
\* or dial code, in the order of the list; the whole list when q is empty
Having(q) ==
    IF q = <<>> THEN countries
    ELSE SelectSeq(countries,
                   LAMBDA c : \/ Occurs(q, toLowerCase(nameChars(c)))
                              \/ Occurs(q, toLowerCase(iso2Chars(c)))
                              \/ Occurs(q, c.dialCode))

\* the query without the blanks around it
Unpadded(q) ==
    LET inner == {i \in 1..Len(q) : q[i] # " "}
    IN  IF inner = {} THEN <<>>
        ELSE SubSeq(q, CHOOSE i \in inner : \A j \in inner : i <= j,
                       CHOOSE i \in inner : \A j \in inner : i >= j)

\* found is a subsequence of the working list
FoundInListOrder ==
    \E keep \in SUBSET (1..Len(countries)) :
        calc.found = SelectSeq(countries,
                         LAMBDA c : \E i \in keep : countries[i] = c)

(* C29 as stated: search and filterOption return exactly the countries     *)
(* that contain the query, in lower case and less a leading '+', as it was *)
(* typed, blanks included.                                                 *)
C29_AsStated ==
    calc.op \in {"search", "filterOption"} =>
        calc.found = Having(QueryAsRead)

(* C29, amended: search ignores a leading '+' and then the blanks around   *)
(* the query: it returns, in working-list order, exactly the countries     *)
(* whose name, ISO2 code or dial code contains what is left, without       *)
(* regard to case, and the whole list when nothing is left. filterOption   *)
(* does the same with the query as typed, blanks kept. The result is a     *)
(* subsequence of the working list.                                        *)
C29_SearchSubstring ==
    /\ calc.op = "search" => calc.found = Having(Unpadded(QueryAsRead))
    /\ calc.op = "filterOption" => calc.found = Having(QueryAsRead)
    /\ calc.op \in {"search", "filterOption"} => FoundInListOrder

\* "US" typed in capitals finds the United States alone among four countries
C29_Witness ==
    /\ calc.op = "search"
    /\ calc.query = <<"U", "S">>
    /\ countries = allCountries
    /\ calc.found = <<US>>

-----------------------------------------------------------------------------
(* C30: clear() keeps the dial code. After it the text is exactly '+' and  *)
(* the dial code of the selected country, the selected country is the one  *)
(* it was, and exactly one value has been emitted, with that country, an   *)
(* empty national number and isValid = FALSE.                              *)
C30_ClearKeepsDialCode ==
    last.op = "Clear" =>
        /\ inputValue = <<"+">> \o last.country.dialCode
        /\ selectedCountry = last.country
        /\ Len(emitted) = 1
        /\ emitted[1].nationalNumber = <<>>
        /\ emitted[1].isValid = FALSE
        /\ emitted[1].country = last.country

\* clear() of a field that held a national number
C30_Witness ==
    /\ last.op = "Clear"
    /\ Len(last.text) > P(last.country)
    /\ inputValue = <<"+">> \o last.country.dialCode
    /\ emitted[1].nationalNumber = <<>>

\* the text is still the dial code when the effects of that render have
\* run, in an uncontrolled widget and when the parent supplied the emitted
\* value
C30_AfterEffects ==
    (/\ last.op = "RunEffects"
     /\ last.arg = "Clear"
     /\ controlledValue \in {NoValue, <<"+">> \o selectedCountry.dialCode}) =>
        inputValue = <<"+">> \o selectedCountry.dialCode

-----------------------------------------------------------------------------
\* Backspace was pressed on a non-empty selection that begins at or behind P
BackspaceOnNumber ==
    /\ last.op = "Backspace"
    /\ last.e > last.s
    /\ last.s >= P(last.country)

\* the text without the selection, the caret where the selection began
SelectionRemoved ==
    /\ inputValue = SubSeq(last.text, 1, last.s)
                        \o SubSeq(last.text, last.e + 1, Len(last.text))
    /\ selStart = last.s
    /\ selEnd = last.s

(* C31: Backspace on a non-empty selection [s, e) with s >= P, s = P       *)
(* included, goes through key-down, before-input and change: the text      *)
(* becomes text[0..s) + text[e..] and the caret is at s.                   *)
C31_BackspaceOnNumber ==
    BackspaceOnNumber => SelectionRemoved

\* the same for the selections that begin behind P
C31_BackspaceBehindPrefix ==
    (BackspaceOnNumber /\ last.s > P(last.country)) =>
        SelectionRemoved /\ Len(emitted) = 1

\* a selection that begins exactly at P is left as it is
C31_BackspaceAtPrefixBlocked ==
    (BackspaceOnNumber /\ last.s = P(last.country)) =>
        /\ inputValue = last.text
        /\ selStart = last.s
        /\ selEnd = last.e
        /\ emitted = <<>>

-----------------------------------------------------------------------------
\* the part of the text behind the protected prefix of the selected country
BehindPrefix == SubSeq(inputValue, P(selectedCountry) + 1, Len(inputValue))

\* it consists of digits only
NationalPartIsDigits ==
    \A i \in 1..Len(BehindPrefix) : BehindPrefix[i] \in DigitChars

\* the field content after a typed character replaced the selection
TypedContent ==
    SubSeq(last.text, 1, last.s) \o <<last.arg>>
        \o SubSeq(last.text, last.e + 1, Len(last.text))

\* a typed change that loses the prefix gives prefix + all digits of the
\* content, one that keeps it loses the non-digits behind the prefix
TypedChangeRule ==
    last.op = "Type" =>
        LET prefix == <<"+">> \o last.country.dialCode
            digitsOf(x) == SelectSeq(x, LAMBDA ch : ch \in DigitChars)
        IN  inputValue =
                IF /\ Len(TypedContent) >= Len(prefix)
                   /\ SubSeq(TypedContent, 1, Len(prefix)) = prefix
                THEN prefix \o digitsOf(SubSeq(TypedContent, Len(prefix) + 1,
                                               Len(TypedContent)))
                ELSE prefix \o digitsOf(TypedContent)

(* C32: a typed change that loses the prefix is replaced by prefix + all   *)
(* digits of the content, one that keeps the prefix has the non-digits     *)
(* behind it removed, and in every reachable state the part of the text    *)
(* behind the protected prefix consists of digits only.                    *)
C32_NationalDigitsOnly ==
    TypedChangeRule /\ NationalPartIsDigits

\* the rule for typed changes alone
C32_TypedChange == TypedChangeRule

-----------------------------------------------------------------------------
\* the first country of the working list with the ISO2 code, or NoCountry
ListedByIso2(code) ==
    LET hits == {i \in 1..Len(countries) :
                    toUpperCase(countries[i].iso2) = toUpperCase(code)}
    IN  IF code = "" \/ hits = {} THEN NoCountry
        ELSE countries[CHOOSE i \in hits : \A j \in hits : i <= j]

\* the country a dial code stands for: the first of the working list that
\* has it, else the primary country of the catalog for it
ByDefaultCode(dialCode) ==
    LET code == LessLeadingPlus(dialCode)
        hits == {i \in 1..Len(countries) : countries[i].dialCode = code}
    IN  IF dialCode = <<>> THEN NoCountry
        ELSE IF hits # {}
             THEN countries[CHOOSE i \in hits : \A j \in hits : i <= j]
             ELSE PrimaryFor(code)

\* the value the widget starts from: value, else defaultValue
InitialValue ==
    IF calc.props.value # NoValue THEN calc.props.value
    ELSE calc.props.defaultValue

\* the country guessed from the initial value, when the working list has it
GuessedAndListed ==
    LET guessed == IF InitialValue = <<>> THEN NoCountry
                   ELSE guessCountryFromNumber(InitialValue)
    IN  IF \E i \in 1..Len(countries) : countries[i].iso2 = guessed.iso2
        THEN guessed ELSE NoCountry

\* the country the priority of the claim gives
PriorityCountry ==
    IF ListedByIso2(calc.props.defaultCountry) # NoCountry
    THEN ListedByIso2(calc.props.defaultCountry)
    ELSE IF ByDefaultCode(calc.props.defaultCode) # NoCountry
    THEN ByDefaultCode(calc.props.defaultCode)
    ELSE IF GuessedAndListed # NoCountry THEN GuessedAndListed
    ELSE IF countries # <<>> THEN countries[1]
    ELSE US

-----------------------------------------------------------------------------
\* the state a choice of the country c leaves: c selected, the text for c,
\* one value emitted for that text and c
ChosenLike(c) ==
    /\ selectedCountry = c
    /\ inputValue = countryChangeValue(last.text, last.country, c)
    /\ emitted = <<parsePhoneNumber(inputValue, c)>>
    /\ raf = last.raf

(* C34: setCountry(iso2) with a code that names no country of the working  *)
(* list changes nothing and emits nothing; with a code of the working      *)
(* list, in any case of letters, it leaves the state that choosing that    *)
(* country in the dropdown leaves.                                         *)
C34_SetCountry ==
    /\ last.op = "SetCountry" =>
          IF ListedByIso2(last.arg) = NoCountry
          THEN /\ selectedCountry = last.country
               /\ inputValue = last.text
               /\ selStart = last.s
               /\ selEnd = last.e
               /\ emitted = <<>>
               /\ controlledValue = last.value
               /\ raf = last.raf
          ELSE ChosenLike(ListedByIso2(last.arg))
    /\ last.op = "CountryChange" => ChosenLike(ListedByIso2(last.arg))

\* setCountry("gb") switched a widget from another country to Great Britain
C34_Witness ==
    /\ last.op = "SetCountry"
    /\ last.arg = "gb"
    /\ last.country # GB
    /\ selectedCountry = GB
    /\ Len(emitted) = 1
    /\ inputValue # last.text

-----------------------------------------------------------------------------
\* the selected country is one of the working list
SelectedIsListed ==
    \E i \in 1..Len(countries) : countries[i].iso2 = selectedCountry.iso2

(* C35: whenever the working list is not empty the selected country is one *)
(* of its members: after construction for every combination of             *)
(* defaultCountry, defaultCode and initial value, and after the effects    *)
(* that follow.                                                            *)
C35_SelectedInWorkingList ==
    (calc.op \in {"mounted", "effects"} /\ countries # <<>>) => SelectedIsListed

\* the same for the widgets mounted without defaultCode
C35_WithoutDefaultCode ==
    (/\ calc.op \in {"mounted", "effects"}
     /\ countries # <<>>
     /\ calc.props.defaultCode = <<>>) => SelectedIsListed

(* C35 for the events of a mounted widget: after a dropdown selection,     *)
(* setCountry and the synchronisation to a controlled value the selected   *)
(* country is a member of the non-empty working list.                      *)
C35_SelectedStaysListed ==
    countries # <<>> => SelectedIsListed

-----------------------------------------------------------------------------
\* in a controlled widget whose effects have nothing left to do the text is
\* the controlled value normalized for the selected country
SettledIsNormalized ==
    (~dirty /\ controlledValue # NoValue) =>
        inputValue = normalizePhoneValue(controlledValue, selectedCountry)

(* C36: the synchronisation to the controlled value terminates. After a    *)
(* change of the external value, the selected country or the text the      *)
(* effects run until a pass changes nothing, which happens after finitely  *)
(* many passes, and then the text is normalize(external value, selected    *)
(* country).                                                               *)
C36_SyncTerminates ==
    /\ []SettledIsNormalized
    /\ dirty ~> ~dirty

\* a value from the parent has been synchronised and nothing is left to do
C36_Witness ==
    /\ last.op = "RunEffects"
    /\ last.arg = "SetControlledValue"
    /\ ~dirty
    /\ controlledValue # NoValue
    /\ inputValue = normalizePhoneValue(controlledValue, selectedCountry)
    /\ GuessByPrefix(SelectSeq(controlledValue, LAMBDA ch : ch \in DigitChars),
                     MaxDialCodeLen) = selectedCountry

-----------------------------------------------------------------------------
\* the last pending callback of requestAnimationFrame has just run
CorrectionsDone ==
    last.op = "RunRaf" /\ raf = <<>>

(* C37: once every pending deferred cursor correction has run the          *)
(* selection starts at or behind the protected prefix of the country that  *)
(* is selected then, whatever happened between the scheduling of a         *)
(* correction and its execution, a country change included.                *)
C37_CaretBehindPrefix ==
    CorrectionsDone => selStart >= P(selectedCountry)

\* the same for the corrections that run with the country they were
\* scheduled for still selected
C37_SameCountry ==
    (CorrectionsDone /\ Head(last.raf).pos = P(selectedCountry)) =>
        selStart >= P(selectedCountry)

-----------------------------------------------------------------------------
\* a text was switched from its country to another and back
SwitchedBack == calc.op = "switchBack"

\* the text is the prefix of its country followed by digits only
PrefixAndDigits ==
    \A i \in (Len(calc.c.dialCode) + 2)..Len(calc.x) : calc.x[i] \in DigitChars

-----------------------------------------------------------------------------
\* the operations that emit a value through onChange
EmittingOps ==
    {"Type", "Backspace", "Delete", "Cut", "Paste", "CountryChange",
     "SetCountry", "Clear"}

\* the operation just performed emitted a value
Emitted == emitted # <<>>

(* C39: every value emitted through onChange describes the state after the *)
(* operation: fullNumber and rawValue are the new text, country is the     *)
(* country selected after the operation, and getValue() called right       *)
(* afterwards returns the same value.                                      *)
C39_EmittedDescribesState ==
    Emitted =>
        /\ last.op \in EmittingOps
        /\ emitted[1].fullNumber = inputValue
        /\ emitted[1].rawValue = inputValue
        /\ emitted[1].country = selectedCountry
        /\ emitted[1] = getValue


\* Great Britain was chosen for a text with a national number: the value
\* emitted holds the new text and the new country
C39_Witness ==
    /\ Emitted
    /\ last.op = "CountryChange"
    /\ last.country = US
    /\ selectedCountry = GB
    /\ Len(inputValue) > 3
    /\ emitted[1].fullNumber = inputValue
    /\ emitted[1].country = GB

-----------------------------------------------------------------------------
\* the steps of synchronising to an externally supplied value
SyncOps == {"SetControlledValue", "RunEffects"}

(* C40: synchronising to an externally supplied controlled value, which    *)
(* updates the text and possibly the selected country, emits nothing       *)
(* through onChange; a value is emitted only by a user edit, a country     *)
(* selection, setCountry or clear.                                         *)
C40_SyncEmitsNothing ==
    /\ last.op \in SyncOps => emitted = <<>>
    /\ emitted # <<>> =>
           last.op \in {"Type", "Backspace", "Delete", "Cut", "Paste",
                        "CountryChange", "SetCountry", "Clear"}

\* the parent supplied another value, the sync effect replaced the text and
\* selected another country, and nothing was emitted
C40_Witness ==
    /\ last.op = "RunEffects"
    /\ last.arg = "SetControlledValue"
    /\ inputValue # last.text
    /\ selectedCountry # last.country
    /\ emitted = <<>>

====
